---------------------------- MODULE Spec2Model ----------------------------
(*
  sniproxy-rs: a TCP-level reverse proxy that dispatches TLS connections by
  the SNI host name of the ClientHello (src/src/main.rs).

  Spec follows one accepted connection through handle_connection:
  get_server_name over a TlsHandshakeReader, the backend connect, the
  optional PROXY v1 header, the replay of the reader's buffer and the
  bidirectional splice.  Bytes are integers 0..255.

  MainSpec follows main and main_loop: the accept loop, the handlers it
  spawns (each reduced to the stage it is in), the hangup signal and the
  10 s main grants the handlers after the loop.
*)
EXTENDS Integers, Sequences, FiniteSets, TLC

VARIABLES
    input,      \* what the client and the environment will do (fixed by Init)
    sent,       \* every byte the client sends on the connection, in order
    reader,     \* TlsHandshakeReader { source, buffer, offset, limit }
    frame,      \* get_server_name: position, locals and result
    phase,      \* position of handle_connection / connect_backend
    error,      \* the TlsError connect_backend returned (0: none)
    timer,      \* the 10 s since the handler began: "running", or the stage
                \* in which they ran out ("parse", "handoff", "splice")
    fsAccess,   \* paths handed to the filesystem: <<operation, name, file>>
    backendIn,  \* bytes written to the backend socket, in order
    headerLen,  \* how many of them belong to the PROXY header
    clientOut,  \* bytes written to the client socket, in order
    alertWrites,\* number of alert writes attempted
    backend,    \* how the connect ended (conn) and the backend's read side
    c2b,        \* copy_all(client_in, backend_out): "idle"/"running"/"done"
    b2c,        \* copy_all(backend_in, client_out)
    shutdowns,  \* [backend, client]: shutdown() calls on each write half
    sentinel,   \* fs::metadata(name/send-proxy-v1).is_ok(), once it was asked
    process,    \* position of main: "accepting", "grace" or "exited"
    tasks,      \* the handlers spawned on the LocalSet, in order of accept
    hangup,     \* SIGHUP delivered and not yet taken by graceful_shutdown.recv()
    exit        \* what main returned ("none" while it runs)

\* the variables of one connection's handler
connection == <<input, sent, reader, frame, phase, error, timer, fsAccess,
                backendIn, headerLen, clientOut, alertWrites, backend, c2b,
                b2c, shutdowns, sentinel>>

\* the variables of main and main_loop
lifecycle == <<process, tasks, hangup, exit>>

vars == <<connection, lifecycle>>

---------------------------------------------------------------------------
(* Program constants *)

TLS_LEGACY_RECORD_VERSION == <<3, 3>>
TLS_HANDSHAKE_CONTENT_TYPE == 22
TLS_HANDSHAKE_TYPE_CLIENT_HELLO == 1
TLS_EXTENSION_SNI == 0
TLS_SNI_HOST_NAME_TYPE == 0
TLS_ALERT_CONTENT_TYPE == 21
TLS_ALERT_LENGTH == <<0, 2>>
TLS_ALERT_LEVEL_FATAL == 2

UnexpectedMessage == 10
RecordOverflow == 22
DecodeError == 50
InternalError == 80
UserCanceled == 90
UnrecognizedName == 112

MaxRecordLength == 16384
MaxHostLength == 254
RandomSkip == 34
HeaderSize == 5

---------------------------------------------------------------------------
(* Bounds of the model *)

MaxNameLen == 3     \* host names of 0..MaxNameLen bytes over NameBytes
MaxFrag == 3        \* handshake records of 1..MaxFrag bytes each
MaxBadIdx == 2      \* a malformed record is among the first MaxBadIdx
MaxBackendBytes == 2 \* bytes the backend sends during the splice
MaxConnections == 3 \* connections accepted before the process exits

---------------------------------------------------------------------------
(* Sequences of bytes *)

Rep(b, n) == [i \in 1..n |-> b]

RECURSIVE Flatten(_)
Flatten(ss) == IF ss = <<>> THEN <<>> ELSE Head(ss) \o Flatten(Tail(ss))

Take(s, n) == SubSeq(s, 1, n)
Drop(s, n) == SubSeq(s, n + 1, Len(s))
IsPrefix(p, s) == Len(p) <= Len(s) /\ p = Take(s, Len(p))

Min(a, b) == IF a < b THEN a ELSE b

\* n as w big-endian bytes
RECURSIVE BE(_, _)
BE(n, w) == IF w = 0 THEN <<>> ELSE BE(n \div 256, w - 1) \o <<n % 256>>

RECURSIVE SeqsUpTo(_, _)
SeqsUpTo(S, n) ==
    IF n = 0 THEN {<<>>}
    ELSE LET shorter == SeqsUpTo(S, n - 1)
         IN  shorter \cup {Append(s, b) : s \in shorter, b \in S}

---------------------------------------------------------------------------
(* The client's byte stream.

   An input describes a ClientHello (handshake type, session id, cipher
   suites, compression methods, extensions), one length field that states
   another value than the actual one (ovr), the split of the handshake bytes
   into records (frag: record sizes, the last size repeating), one malformed
   record (bad), the bytes that follow the ClientHello's records (tail), a
   truncation (cut), how the stream ends once its bytes are read (ending),
   and the connection's endpoints. *)

Host(n) == [ntype |-> TLS_SNI_HOST_NAME_TYPE, name |-> n]
Alt(n) == [ntype |-> 1, name |-> n]
Sni(es) == [etype |-> TLS_EXTENSION_SNI, entries |-> es, pad |-> 0]
Other(k) == [etype |-> 43, entries |-> <<>>, pad |-> k]

NoOvr == [field |-> "none", value |-> 0]
NoBad == [kind |-> "none", idx |-> 0]
NoCut == 0 - 1

\* the stated value of a length field
Stated(in, field, actual) ==
    IF in.ovr.field = field THEN in.ovr.value ELSE actual

RECURSIVE FirstSni(_, _)
FirstSni(exts, i) ==
    IF i > Len(exts) THEN 0
    ELSE IF exts[i].etype = TLS_EXTENSION_SNI THEN i
    ELSE FirstSni(exts, i + 1)

\* a vector: its length on w bytes, as stated, then its bytes
Vec(in, field, w, body) == BE(Stated(in, field, Len(body)), w) \o body

\* only the first SNI extension, and its first entry, can misstate a length
Only(first, field) == IF first THEN field ELSE "exact"

EntryBytes(in, e, first) ==
    <<e.ntype>> \o Vec(in, Only(first, "name"), 2, e.name)

ExtBody(in, x, firstSni) ==
    IF x.etype = TLS_EXTENSION_SNI
    THEN Vec(in, Only(firstSni, "list"), 2,
             Flatten([j \in 1..Len(x.entries) |->
                         EntryBytes(in, x.entries[j], firstSni /\ j = 1)]))
    ELSE Rep(204, x.pad)

ExtBytes(in, i) ==
    BE(in.exts[i].etype, 2)
    \o Vec(in, Only(i = 1, "ext"), 2,
           ExtBody(in, in.exts[i], i = FirstSni(in.exts, 1)))

HelloBody(in) ==
    TLS_LEGACY_RECORD_VERSION \o Rep(170, RandomSkip - 2)
    \o <<Stated(in, "sid", in.sid)>> \o Rep(187, in.sid)
    \o BE(Stated(in, "cs", in.cs), 2) \o Rep(19, in.cs)
    \o <<Stated(in, "comp", in.comp)>> \o Rep(0, in.comp)
    \o (IF in.hasExts
        THEN Vec(in, "exts", 2,
                 Flatten([i \in 1..Len(in.exts) |-> ExtBytes(in, i)]))
        ELSE <<>>)

\* the handshake message stream: type, 3-byte length, body
HelloBytes(in) == <<in.htype>> \o Vec(in, "hello", 3, HelloBody(in))

\* the handshake bytes cut into records of the sizes frag names
RECURSIVE Chunk(_, _)
Chunk(hs, frag) ==
    IF hs = <<>> THEN <<>>
    ELSE <<[ctype |-> TLS_HANDSHAKE_CONTENT_TYPE,
            len |-> Min(Head(frag), Len(hs)),
            payload |-> Take(hs, Min(Head(frag), Len(hs)))]>>
         \o Chunk(Drop(hs, Min(Head(frag), Len(hs))),
                  IF Len(frag) > 1 THEN Tail(frag) ELSE frag)

EmptyRecord ==
    [ctype |-> TLS_HANDSHAKE_CONTENT_TYPE, len |-> 0, payload |-> <<>>]

\* record i of rs made malformed in the way k names
Damage(rs, i, k) ==
    IF k = "none" \/ rs = <<>> THEN rs
    ELSE IF k = "empty"
    THEN Take(rs, i - 1) \o <<EmptyRecord>> \o Drop(rs, i - 1)
    ELSE IF k = "typeempty"
    THEN Take(rs, i - 1) \o <<[EmptyRecord EXCEPT !.ctype = 23]>>
         \o Drop(rs, i - 1)
    ELSE [rs EXCEPT ![i] =
             CASE k = "type" -> [@ EXCEPT !.ctype = 23]
               [] k = "over" -> [@ EXCEPT !.len = MaxRecordLength + 1]
               [] k = "typeover" ->
                    [@ EXCEPT !.ctype = 23, !.len = MaxRecordLength + 1]
               [] k = "max" -> [@ EXCEPT !.len = MaxRecordLength]]

\* the index of the malformed record among n; idx 0 is the last record
BadIndex(idx, n) == IF idx = 0 THEN n ELSE Min(idx, n)

\* the records with the malformed one in place
Damaged(rs, bad) == Damage(rs, BadIndex(bad.idx, Len(rs)), bad.kind)

Records(in) == Damaged(Chunk(HelloBytes(in), in.frag), in.bad)

RecordBytes(in, r) == <<r.ctype>> \o in.rver \o BE(r.len, 2) \o r.payload

\* the first cut bytes of all, or all of them
Cut(all, cut) == IF cut = NoCut THEN all ELSE Take(all, Min(cut, Len(all)))

RecordsBytes(in, rs) ==
    Flatten([i \in 1..Len(rs) |-> RecordBytes(in, rs[i])])

\* every byte the client sends before its stream ends
ClientBytes(in) == Cut(RecordsBytes(in, Records(in)) \o in.tail, in.cut)

---------------------------------------------------------------------------
(* TlsHandshakeReader.

   A reader is [source, buffer, offset, limit]; source is the client's read
   half, [rest, ending]: the bytes not yet read and what a read finds after
   them ("eof", "reset": an I/O error, "stall": nothing, for ever).
   offset and limit are 0-based as in the code: buffer[offset] of the code
   is r.buffer[r.offset + 1] here.

   An operation that can fail or wait returns [st, r, v]: st is "ok", "err"
   (v is the TlsError) or "pend" (the read never completes). *)

new(source) == [source |-> source, buffer |-> <<>>, offset |-> 0, limit |-> 0]

\* check_length with a saturating subtraction: a charge above the budget
\* leaves 0
check_length_saturating(length, limit) ==
    [st |-> "ok", v |-> IF limit >= length THEN limit - length ELSE 0]

\* check_length: the budget after the charge, or DecodeError
check_length(length, limit) ==
    IF limit >= length
    THEN [st |-> "ok", v |-> limit - length]
    ELSE [st |-> "err", v |-> DecodeError]

\* seek: the cursor moves whether or not the budget covers the skip
seek(r, offset, limit) ==
    LET c == check_length(offset, limit)
    IN  [st |-> c.st, r |-> [r EXCEPT !.offset = @ + offset], v |-> c.v]

\* read_buf from a source that has `rest` left, `need` bytes being asked
\* for: the number of bytes it appends in all before fill_to returns
Appended(rest, need, greedy) ==
    IF Len(rest) < need \/ greedy THEN Len(rest) ELSE need

\* r after its source has given n more bytes
Filled(r, n) ==
    [r EXCEPT !.buffer = @ \o Take(r.source.rest, n),
              !.source.rest = Drop(@, n)]

\* Starved with the end of the stream taken for an I/O error
StarvedAsIoError(r) ==
    CASE r.source.ending \in {"eof", "reset"} ->
            [st |-> "err", r |-> r, v |-> InternalError]
      [] OTHER -> [st |-> "pend", r |-> r, v |-> 0]

\* what fill_to returns once the source has nothing more: read_buf
\* returning 0 is DecodeError, an I/O error is InternalError, or the read
\* waits for ever
Starved(r) ==
    CASE r.source.ending = "eof" -> [st |-> "err", r |-> r, v |-> DecodeError]
      [] r.source.ending = "reset" ->
            [st |-> "err", r |-> r, v |-> InternalError]
      [] OTHER -> [st |-> "pend", r |-> r, v |-> 0]

\* fill_to: read_buf appends what the source has: at least what is asked
\* for when it has that much (all of it when greedy), else whatever is left
\* before the source ends.
fill_to(r, target, greedy) ==
    IF Len(r.buffer) >= target THEN [st |-> "ok", r |-> r, v |-> 0]
    ELSE IF Len(r.source.rest) >= target - Len(r.buffer)
    THEN [st |-> "ok",
          r |-> Filled(r, Appended(r.source.rest, target - Len(r.buffer),
                                   greedy)),
          v |-> 0]
    ELSE Starved(Filled(r, Len(r.source.rest)))

\* HeaderError without the check of the content type
HeaderErrorAnyType(ctype, length) ==
    IF length = 0 THEN DecodeError
    ELSE IF length > MaxRecordLength THEN RecordOverflow
    ELSE 0

\* HeaderError without the check of the length against 2^14
HeaderErrorAnyLength(ctype, length) ==
    IF ctype # TLS_HANDSHAKE_CONTENT_TYPE THEN UnexpectedMessage
    ELSE IF length = 0 THEN DecodeError
    ELSE 0

\* HeaderError with the length looked at before the content type
HeaderErrorLengthFirst(ctype, length) ==
    IF length = 0 THEN DecodeError
    ELSE IF length > MaxRecordLength THEN RecordOverflow
    ELSE IF ctype # TLS_HANDSHAKE_CONTENT_TYPE THEN UnexpectedMessage
    ELSE 0

\* HeaderError without the check for an empty record: a header that moves
\* limit no further than offset
HeaderErrorEmptyAllowed(ctype, length) ==
    IF ctype # TLS_HANDSHAKE_CONTENT_TYPE THEN UnexpectedMessage
    ELSE IF length > MaxRecordLength THEN RecordOverflow
    ELSE 0

\* the checks of read on the record header at limit: a TlsError, or 0
HeaderError(ctype, length) ==
    IF ctype # TLS_HANDSHAKE_CONTENT_TYPE THEN UnexpectedMessage
    ELSE IF length = 0 THEN DecodeError
    ELSE IF length > MaxRecordLength THEN RecordOverflow
    ELSE 0

\* read, lines 96-98: the length a record header states
RecordLength(buffer, limit) == buffer[limit + 4] * 256 + buffer[limit + 5]

\* EnterRecord with the cursor set to the record's first byte, which forgets
\* how far a skip had carried it past the record's start
EnterRecordAtStart(r, length) ==
    [r EXCEPT !.offset = r.limit + HeaderSize,
              !.limit = @ + HeaderSize + length]

\* read, lines 113-114: step over the header into the record
EnterRecord(r, length) ==
    [r EXCEPT !.offset = @ + HeaderSize, !.limit = @ + HeaderSize + length]

RECURSIVE NextRecord(_, _)

\* read, lines 91-114: the header at limit, f being what fill_to returned
Header(f, limit, greedy) ==
    IF f.st # "ok" THEN f
    ELSE IF HeaderError(f.r.buffer[limit + 1],
                        RecordLength(f.r.buffer, limit)) # 0
    THEN [st |-> "err", r |-> f.r,
          v |-> HeaderError(f.r.buffer[limit + 1],
                            RecordLength(f.r.buffer, limit))]
    ELSE NextRecord(EnterRecord(f.r, RecordLength(f.r.buffer, limit)),
                    greedy)

\* NextRecord with the loop run while offset > limit only: a cursor at the
\* end of its record reads on without a look at the next header
NextRecordWhileBeyond(r, greedy) ==
    IF r.offset <= r.limit THEN [st |-> "ok", r |-> r, v |-> 0]
    ELSE Header(fill_to(r, r.limit + HeaderSize, greedy), r.limit, greedy)

\* read, lines 88-115: while offset >= limit, validate the header at limit
NextRecord(r, greedy) ==
    IF r.offset < r.limit THEN [st |-> "ok", r |-> r, v |-> 0]
    ELSE Header(fill_to(r, r.limit + HeaderSize, greedy), r.limit, greedy)

\* read, lines 117-120: the byte at offset, f being what fill_to returned
ByteAt(f) ==
    IF f.st # "ok" THEN f
    ELSE [st |-> "ok", r |-> [f.r EXCEPT !.offset = @ + 1],
          v |-> f.r.buffer[f.r.offset + 1]]

\* read, line 117, h being the outcome of the loop over record headers
InRecord(h, greedy) ==
    IF h.st # "ok" THEN h ELSE ByteAt(fill_to(h.r, h.r.offset + 1, greedy))

\* read: the next byte of the handshake message stream
read(r, greedy) == InRecord(NextRecord(r, greedy), greedy)

RECURSIVE read_be(_, _, _, _)

\* read_length, line 128: b being what read returned
Shifted(b, length, result, greedy) ==
    IF b.st # "ok" THEN b
    ELSE read_be(b.r, length - 1, result * 256 + b.v, greedy)

\* read_length: `length` bytes as a big-endian number
read_be(r, length, result, greedy) ==
    IF length = 0 THEN [st |-> "ok", r |-> r, v |-> result]
    ELSE Shifted(read(r, greedy), length, result, greedy)

read_length(r, length, greedy) == read_be(r, length, 0, greedy)

\* into_source that writes the bytes up to the cursor only
into_source_consumed(r) == Take(r.buffer, Min(r.offset, Len(r.buffer)))

\* into_source: the bytes written to dest
into_source(r) == r.buffer

---------------------------------------------------------------------------
(* get_server_name.

   A frame is the function's position (pc), its locals and its result:
   [kind |-> "none"] while it runs, then "ok" with the name or "err" with
   the TlsError.  A step is the code between two positions; it returns
   [st, r, f] with st = "pend" when a read of the step never completes. *)

NoResult == [kind |-> "none", code |-> 0, name |-> <<>>]
Err(code) == [kind |-> "err", code |-> code, name |-> <<>>]
Ok(name) == [kind |-> "ok", code |-> 0, name |-> name]

NewFrame ==
    [pc |-> "handshake_type", hello_length |-> 0, extension |-> 0,
     length |-> 0, name_type |-> 0, name_length |-> 0, name |-> <<>>,
     start_of_label |-> TRUE, i |-> 0, result |-> NoResult]

Go(r, f) == [st |-> "ok", r |-> r, f |-> f]
Ret(r, f, res) == [st |-> "ok", r |-> r, f |-> [f EXCEPT !.result = res]]
\* a read that did not succeed: `?` returns its error, a pending read waits
Stop(x, f) ==
    IF x.st = "err" THEN Ret(x.r, f, Err(x.v))
    ELSE [st |-> "pend", r |-> x.r, f |-> f]

(* In the steps that read, the last parameter is what the read returned:
   t for read(), l for read_length(). *)

\* lines 142-144
ReadHandshakeType(f, t) ==
    IF t.st # "ok" THEN Stop(t, f)
    ELSE IF t.v # TLS_HANDSHAKE_TYPE_CLIENT_HELLO
    THEN Ret(t.r, f, Err(UnexpectedMessage))
    ELSE Go(t.r, [f EXCEPT !.pc = "hello_length"])

\* line 146
ReadHelloLength(f, l) ==
    IF l.st # "ok" THEN Stop(l, f)
    ELSE Go(l.r, [f EXCEPT !.hello_length = l.v, !.pc = "version_random"])

\* line 149: skip legacy_version (2) and random (32)
SkipVersionRandom(r, f) ==
    LET s == seek(r, RandomSkip, f.hello_length)
    IN  IF s.st # "ok" THEN Ret(s.r, f, Err(s.v))
        ELSE Go(s.r, [f EXCEPT !.hello_length = s.v, !.pc = "session_id"])

\* lines 152-154, 157-159, 162-164: a length of `width` bytes, then skip
SkipVector(r, f, width, next, l) ==
    LET c == check_length(width, f.hello_length)
        s == seek(l.r, l.v, c.v)
    IN  IF c.st # "ok" THEN Ret(r, f, Err(c.v))
        ELSE IF l.st # "ok" THEN Stop(l, [f EXCEPT !.hello_length = c.v])
        ELSE IF s.st # "ok"
        THEN Ret(s.r, [f EXCEPT !.hello_length = c.v, !.length = l.v],
                 Err(s.v))
        ELSE Go(s.r, [f EXCEPT !.hello_length = s.v, !.length = l.v,
                               !.pc = next])

\* lines 178-186
ExtensionsBlock(r, f, l) ==
    LET c == check_length(2, f.hello_length)
    IN  IF f.hello_length = 0 THEN Ret(r, f, Err(UnrecognizedName))
        ELSE IF c.st # "ok" THEN Ret(r, f, Err(c.v))
        ELSE IF l.st # "ok" THEN Stop(l, [f EXCEPT !.hello_length = c.v])
        ELSE IF c.v # l.v
        THEN Ret(l.r, [f EXCEPT !.hello_length = c.v], Err(DecodeError))
        ELSE Go(l.r, [f EXCEPT !.hello_length = c.v, !.pc = "extension"])

\* lines 188-190, and 271 when the loop ends
NextExtension(r, f, l) ==
    LET c == check_length(4, f.hello_length)
    IN  IF ~(f.hello_length > 0) THEN Ret(r, f, Err(UnrecognizedName))
        ELSE IF c.st # "ok" THEN Ret(r, f, Err(c.v))
        ELSE IF l.st # "ok" THEN Stop(l, [f EXCEPT !.hello_length = c.v])
        ELSE Go(l.r, [f EXCEPT !.hello_length = c.v, !.extension = l.v,
                               !.pc = "extension_length"])

\* lines 191-196
ExtensionLength(f, l) ==
    LET s == seek(l.r, l.v, f.hello_length)
    IN  IF l.st # "ok" THEN Stop(l, f)
        ELSE IF f.extension # TLS_EXTENSION_SNI
        THEN IF s.st # "ok"
             THEN Ret(s.r, [f EXCEPT !.length = l.v], Err(s.v))
             ELSE Go(s.r, [f EXCEPT !.hello_length = s.v, !.length = l.v,
                                    !.pc = "extension"])
        ELSE Go(l.r, [f EXCEPT !.length = l.v, !.pc = "server_name_list"])

\* lines 198-204
ServerNameList(r, f, l) ==
    LET c1 == check_length(f.length, f.hello_length)
        c2 == check_length(2, f.length)
        f1 == [f EXCEPT !.hello_length = c1.v]
        f2 == [f EXCEPT !.hello_length = c1.v, !.length = c2.v]
    IN  IF c1.st # "ok" THEN Ret(r, f, Err(c1.v))
        ELSE IF c2.st # "ok" THEN Ret(r, f1, Err(c2.v))
        ELSE IF l.st # "ok" THEN Stop(l, f2)
        ELSE IF c2.v # l.v THEN Ret(l.r, f2, Err(DecodeError))
        ELSE Go(l.r, [f2 EXCEPT !.pc = "server_name"])

\* NextName without the break of line 266: when the list holds no host_name
\* the loop over the extensions goes on
NextNameThenNextExtension(r, f, t) ==
    LET c == check_length(3, f.length)
    IN  IF ~(f.length > 0) THEN Go(r, [f EXCEPT !.pc = "extension"])
        ELSE IF c.st # "ok" THEN Ret(r, f, Err(c.v))
        ELSE IF t.st # "ok" THEN Stop(t, [f EXCEPT !.length = c.v])
        ELSE Go(t.r, [f EXCEPT !.length = c.v, !.name_type = t.v,
                               !.pc = "name_length"])

\* lines 206-208, and 266/271 when the loop ends
NextName(r, f, t) ==
    LET c == check_length(3, f.length)
    IN  IF ~(f.length > 0) THEN Ret(r, f, Err(UnrecognizedName))
        ELSE IF c.st # "ok" THEN Ret(r, f, Err(c.v))
        ELSE IF t.st # "ok" THEN Stop(t, [f EXCEPT !.length = c.v])
        ELSE Go(t.r, [f EXCEPT !.length = c.v, !.name_type = t.v,
                               !.pc = "name_length"])

\* lines 209-214
NameLength(f, l) ==
    LET s == seek(l.r, l.v, f.length)
    IN  IF l.st # "ok" THEN Stop(l, f)
        ELSE IF f.name_type # TLS_SNI_HOST_NAME_TYPE
        THEN IF s.st # "ok"
             THEN Ret(s.r, [f EXCEPT !.name_length = l.v], Err(s.v))
             ELSE Go(s.r, [f EXCEPT !.length = s.v, !.name_length = l.v,
                                    !.pc = "server_name"])
        ELSE Go(l.r, [f EXCEPT !.name_length = l.v, !.pc = "host_name"])

\* lines 216-234
HostName(r, f) ==
    LET c == check_length(f.name_length, f.length)
    IN  IF c.st # "ok" THEN Ret(r, f, Err(c.v))
        ELSE IF f.name_length > MaxHostLength
        THEN Ret(r, [f EXCEPT !.length = c.v], Err(UnrecognizedName))
        ELSE Go(r, [f EXCEPT !.length = c.v, !.name = <<>>,
                             !.start_of_label = TRUE, !.i = 0,
                             !.pc = "name_byte"])

\* to_ascii_lowercase that also turns lowercase into uppercase
to_ascii_swapcase(b) ==
    IF b >= 65 /\ b <= 90 THEN b + 32
    ELSE IF b >= 97 /\ b <= 122 THEN b - 32
    ELSE b

\* u8::to_ascii_lowercase
to_ascii_lowercase(b) == IF b >= 65 /\ b <= 90 THEN b + 32 ELSE b

\* line 238: a hostname label can't start with dot or dash
BadLabelStart(start_of_label, b) == start_of_label /\ (b = 45 \/ b = 46)

\* HostByte with the digits' range begun at '-': '.' and '/' lie in it
HostByteFromDash(b) ==
    \/ (b >= 97 /\ b <= 122)
    \/ (b >= 45 /\ b <= 57)

\* line 247: b'a'..=b'z' | b'0'..=b'9' | b'-' | b'.'
HostByte(b) ==
    \/ (b >= 97 /\ b <= 122)
    \/ (b >= 48 /\ b <= 57)
    \/ b = 45
    \/ b = 46

\* EndsAtLabelStart without the check: any end of the name is accepted
EndsAnywhere(start_of_label) == FALSE

\* line 254: the name must not end where a label would start
EndsAtLabelStart(start_of_label) == start_of_label

\* lines 235-260, b being the byte read in lowercase
NameByte(r, f, x, b) ==
    IF f.i < f.name_length
    THEN IF x.st # "ok" THEN Stop(x, f)
         ELSE IF BadLabelStart(f.start_of_label, b)
         THEN Ret(x.r, f, Err(UnrecognizedName))
         ELSE IF ~HostByte(b)
         THEN Ret(x.r, [f EXCEPT !.start_of_label = (b = 46)],
                  Err(UnrecognizedName))
         ELSE Go(x.r, [f EXCEPT !.start_of_label = (b = 46),
                                !.name = Append(@, b), !.i = @ + 1])
    ELSE IF EndsAtLabelStart(f.start_of_label)
    THEN Ret(r, f, Err(UnrecognizedName))
    ELSE Ret(r, f, Ok(f.name))

\* lines 235-236: the byte read, if one was
Lowercase(x) == IF x.st = "ok" THEN to_ascii_lowercase(x.v) ELSE 0

\* the bytes the step at pc reads before anything else of it depends on them
ReadWidth(pc) ==
    CASE pc \in {"handshake_type", "session_id", "compression",
                 "server_name", "name_byte"} -> 1
      [] pc \in {"cipher_suites", "extensions", "extension",
                 "extension_length", "server_name_list", "name_length"} -> 2
      [] pc = "hello_length" -> 3
      [] OTHER -> 0

\* the step from position f.pc, x being what its read returns
StepWith(r, f, x) ==
    CASE f.pc = "handshake_type" -> ReadHandshakeType(f, x)
      [] f.pc = "hello_length" -> ReadHelloLength(f, x)
      [] f.pc = "version_random" -> SkipVersionRandom(r, f)
      [] f.pc = "session_id" -> SkipVector(r, f, 1, "cipher_suites", x)
      [] f.pc = "cipher_suites" -> SkipVector(r, f, 2, "compression", x)
      [] f.pc = "compression" -> SkipVector(r, f, 1, "extensions", x)
      [] f.pc = "extensions" -> ExtensionsBlock(r, f, x)
      [] f.pc = "extension" -> NextExtension(r, f, x)
      [] f.pc = "extension_length" -> ExtensionLength(f, x)
      [] f.pc = "server_name_list" -> ServerNameList(r, f, x)
      [] f.pc = "server_name" -> NextName(r, f, x)
      [] f.pc = "name_length" -> NameLength(f, x)
      [] f.pc = "host_name" -> HostName(r, f)
      [] f.pc = "name_byte" -> NameByte(r, f, x, Lowercase(x))

\* one step of get_server_name from position f.pc
GsnStep(r, f, g) == StepWith(r, f, read_length(r, ReadWidth(f.pc), g))

\* a step from s = [st, r, f], unless get_server_name has returned or waits
\* for ever
StepOn(s) ==
    IF s.st = "pend" \/ s.f.result.kind # "none" THEN s
    ELSE GsnStep(s.r, s.f, FALSE)

\* the one element of a singleton
The(S) == CHOOSE x \in S : TRUE

\* 2^k steps from s, the first half being evaluated before the second
RECURSIVE Steps(_, _)
Steps(s, k) ==
    IF k = 0 THEN StepOn(s)
    ELSE The({Steps(u, k - 1) : u \in {Steps(s, k - 1)}})

\* k with 2^k >= n
RECURSIVE Log2(_)
Log2(n) == IF n <= 1 THEN 0 ELSE 1 + Log2((n + 1) \div 2)

\* get_server_name run until it returns or waits for ever: every step but
\* the first four reads or skips a byte, or returns
get_server_name(source) ==
    Steps(Go(new(source), NewFrame), Log2(Len(source.rest) + 16))

---------------------------------------------------------------------------
(* The inputs explored *)

\* 'a', 'A', '0', '.', '-', '/'
NameBytes == {97, 65, 48, 46, 45, 47}
Names == SeqsUpTo(NameBytes, MaxNameLen)

Whole == <<MaxRecordLength>>
Frags == {Whole, <<1, 10, MaxRecordLength>>} \cup {<<k>> : k \in 1..MaxFrag}

\* an application_data record that follows the ClientHello
AppData == <<23, 3, 3, 0, 2, 7, 8>>
Tails == {<<>>, AppData}

R4 == [v |-> 4, ip |-> <<203, 0, 113, 7>>, port |-> 51000]
L4 == [v |-> 4, ip |-> <<198, 51, 100, 1>>, port |-> 443]
R6 == [v |-> 6, ip |-> <<8193, 3512, 0, 0, 0, 0, 0, 7>>, port |-> 51000]
L6 == [v |-> 6, ip |-> <<0, 0, 0, 0, 0, 0, 0, 1>>, port |-> 443]

Base ==
    [htype |-> TLS_HANDSHAKE_TYPE_CLIENT_HELLO, sid |-> 0, cs |-> 2,
     comp |-> 1, hasExts |-> TRUE, exts |-> <<Sni(<<Host(<<97>>)>>)>>,
     ovr |-> NoOvr, frag |-> Whole, bad |-> NoBad,
     rver |-> TLS_LEGACY_RECORD_VERSION, tail |-> <<>>, cut |-> NoCut,
     ending |-> "eof", remote |-> R4, local |-> L4]

WithName(n) == [Base EXCEPT !.exts = <<Sni(<<Host(n)>>)>>]
SniThenOther == [Base EXCEPT !.exts = <<Sni(<<Host(<<97>>)>>), Other(2)>>]
OtherThenSni ==
    [Base EXCEPT !.sid = 1, !.exts = <<Other(1), Sni(<<Host(<<65, 46, 97>>)>>)>>]

\* a ClientHello that ends after the compression methods
NoExtensions == [Base EXCEPT !.hasExts = FALSE, !.exts = <<>>]
\* a ClientHello whose only extension is not server_name
OtherOnly == [Base EXCEPT !.exts = <<Other(2)>>]

Shapes ==
    { Base, SniThenOther, OtherThenSni, NoExtensions,
      [Base EXCEPT !.exts = <<>>],
      [Base EXCEPT !.exts = <<Other(0)>>],
      [Base EXCEPT !.exts = <<Sni(<<>>)>>],
      [Base EXCEPT !.exts = <<Sni(<<Alt(<<47>>), Host(<<97>>)>>)>>],
      [Base EXCEPT !.exts = <<Sni(<<Alt(<<97>>)>>), Sni(<<Host(<<97>>)>>)>>],
      [Base EXCEPT !.exts = <<Sni(<<Host(<<97>>), Host(<<48>>)>>)>>] }

LengthFields ==
    {"hello", "sid", "cs", "comp", "exts", "ext", "list", "name"}

\* a length field that states 0, or more than its enclosing length holds
Ovrs ==
    {[field |-> fd, value |-> v] :
        fd \in {"hello", "cs", "exts", "ext", "list", "name"}, v \in {0, 300}}
    \cup {[field |-> fd, value |-> v] : fd \in {"sid", "comp"}, v \in {0, 255}}

Bads ==
    {[kind |-> k, idx |-> i] :
        k \in {"type", "empty", "typeempty", "over", "typeover", "max"},
        i \in 0..MaxBadIdx}

NameInputs ==
    {[WithName(n) EXCEPT !.frag = fr] : n \in Names, fr \in {Whole, <<1>>}}
    \cup {WithName(<<b>>) : b \in 0..255}
    \cup {WithName(Rep(97, k)) : k \in {MaxHostLength, MaxHostLength + 1}}

ShapeInputs ==
    {[sh EXCEPT !.frag = fr, !.tail = t] :
        sh \in Shapes, fr \in Frags, t \in Tails}
    \cup {[Base EXCEPT !.htype = 2], [Base EXCEPT !.rver = <<3, 1>>]}

OvrInputs ==
    {[sh EXCEPT !.frag = fr, !.ovr = o] :
        sh \in Shapes, fr \in Frags, o \in Ovrs}

RecordInputs ==
    {[sh EXCEPT !.frag = fr, !.bad = b] :
        sh \in {Base, SniThenOther, OtherThenSni}, fr \in Frags, b \in Bads}

EndingInputs ==
    {[sh EXCEPT !.frag = fr, !.tail = t, !.ending = e, !.remote = a[1],
                !.local = a[2]] :
        sh \in {Base, SniThenOther}, fr \in {Whole, <<1>>}, t \in Tails,
        e \in {"eof", "stall", "reset"}, a \in {<<R4, L4>>, <<R6, L6>>}}

CutInputs ==
    UNION {{[b EXCEPT !.cut = c, !.ending = e] :
               c \in 0..(Len(ClientBytes(b)) - 1), e \in {"eof", "stall"}} :
           b \in {SniThenOther, [OtherThenSni EXCEPT !.frag = <<2>>],
                  NoExtensions, [OtherOnly EXCEPT !.frag = <<MaxFrag>>]}}

Inputs ==
    NameInputs \cup ShapeInputs \cup OvrInputs \cup RecordInputs
    \cup EndingInputs \cup CutInputs

---------------------------------------------------------------------------
(* connect_backend and handle_connection *)

RECURSIVE Dec(_)
Dec(n) == IF n < 10 THEN <<48 + n>> ELSE Dec(n \div 10) \o <<48 + (n % 10)>>

HexDigit(d) == IF d < 10 THEN 48 + d ELSE 87 + d
RECURSIVE Hex(_)
Hex(n) ==
    IF n < 16 THEN <<HexDigit(n)>>
    ELSE Hex(n \div 16) \o <<HexDigit(n % 16)>>

RECURSIVE Join(_, _)
Join(parts, sep) ==
    IF parts = <<>> THEN <<>>
    ELSE IF Len(parts) = 1 THEN parts[1]
    ELSE parts[1] \o <<sep>> \o Join(Tail(parts), sep)

\* number of zero groups from position i on
RECURSIVE ZeroRun(_, _)
ZeroRun(ip, i) ==
    IF i > Len(ip) \/ ip[i] # 0 THEN 0 ELSE 1 + ZeroRun(ip, i + 1)

\* Display of an IP address: dotted decimal; hex groups with the first
\* longest run of two or more zero groups written "::"
IpText(a) ==
    IF a.v = 4 THEN Join([i \in 1..4 |-> Dec(a.ip[i])], 46)
    ELSE LET best == CHOOSE i \in 1..8 :
                        \A j \in 1..8 :
                           \/ ZeroRun(a.ip, j) < ZeroRun(a.ip, i)
                           \/ (ZeroRun(a.ip, j) = ZeroRun(a.ip, i) /\ i <= j)
             n == ZeroRun(a.ip, best)
             groups(lo, hi) == Join([i \in 1..(hi - lo + 1) |->
                                        Hex(a.ip[lo + i - 1])], 58)
         IN  IF n > 1
             THEN groups(1, best - 1) \o <<58, 58>> \o groups(best + n, 8)
             ELSE groups(1, 8)

\* ProxyHeader with the two endpoints in each other's place
ProxyHeaderLocalFirst(remote, local) ==
    <<80, 82, 79, 88, 89, 32>>
    \o (IF remote.v = 4 THEN <<84, 67, 80, 52>> ELSE <<84, 67, 80, 54>>)
    \o <<32>> \o IpText(local) \o <<32>> \o IpText(remote)
    \o <<32>> \o Dec(local.port) \o <<32>> \o Dec(remote.port)
    \o <<13, 10>>

\* "PROXY {} {} {} {} {}\r\n"
ProxyHeader(remote, local) ==
    <<80, 82, 79, 88, 89, 32>>
    \o (IF remote.v = 4 THEN <<84, 67, 80, 52>> ELSE <<84, 67, 80, 54>>)
    \o <<32>> \o IpText(remote) \o <<32>> \o IpText(local)
    \o <<32>> \o Dec(remote.port) \o <<32>> \o Dec(local.port)
    \o <<13, 10>>

\* Alert with the level and the description in each other's place
AlertSwapped(e) ==
    <<TLS_ALERT_CONTENT_TYPE>> \o TLS_LEGACY_RECORD_VERSION
    \o TLS_ALERT_LENGTH \o <<e, TLS_ALERT_LEVEL_FATAL>>

\* the fatal alert written for TlsError e
Alert(e) ==
    <<TLS_ALERT_CONTENT_TYPE>> \o TLS_LEGACY_RECORD_VERSION
    \o TLS_ALERT_LENGTH \o <<TLS_ALERT_LEVEL_FATAL, e>>

ConnectOutcomes ==
    {"Ok", "NotFound", "PermissionDenied", "ConnectionRefused", "TimedOut",
     "Other"}

\* ConnectError without PermissionDenied among the client's faults
ConnectErrorTwoKinds(kind) ==
    IF kind \in {"NotFound", "ConnectionRefused"}
    THEN UnrecognizedName
    ELSE InternalError

\* the map_err of UnixStream::connect
ConnectError(kind) ==
    IF kind \in {"NotFound", "PermissionDenied", "ConnectionRefused"}
    THEN UnrecognizedName
    ELSE InternalError

\* what a failed write_all has written: nothing, or all but the last byte
Partial(data) == {Take(data, k) : k \in {0, Len(data) - 1} \cap 0..Len(data)}

\* the bytes the backend sends
BackendBytes == [i \in 1..MaxBackendBytes |-> 199 + i]

\* handle_connection begins on the connection that `input` describes
Accepted ==
    /\ sent = ClientBytes(input)
    /\ reader = new([rest |-> sent, ending |-> input.ending])
    /\ frame = NewFrame
    /\ phase = "parse"
    /\ error = 0
    /\ timer = "running"
    /\ fsAccess = <<>>
    /\ backendIn = <<>>
    /\ headerLen = 0
    /\ clientOut = <<>>
    /\ alertWrites = 0
    /\ backend = [conn |-> "none", rest |-> <<>>, ending |-> "none"]
    /\ c2b = "idle"
    /\ b2c = "idle"
    /\ shutdowns = [backend |-> 0, client |-> 0]
    /\ sentinel = "unasked"

\* main_loop begins: the listener is ready, no connection was accepted yet
Listening ==
    /\ process = "accepting"
    /\ tasks = <<>>
    /\ hangup = FALSE
    /\ exit = "none"

Init ==
    /\ input \in Inputs
    /\ Accepted
    /\ Listening

\* connect_backend returns Err(e): handle_connection goes to write the alert
Raise(e) == error' = e /\ phase' = "alert"

\* line 283: get_server_name advances by one step
ParseStep ==
    /\ phase = "parse"
    /\ \E g \in BOOLEAN :
          \E n \in {GsnStep(reader, frame, g)} :
             /\ n.st = "ok"
             /\ reader' = n.r
             /\ frame' = n.f
             /\ CASE n.f.result.kind = "err" -> Raise(n.f.result.code)
                  [] n.f.result.kind = "ok" ->
                       phase' = "connect" /\ error' = error
                  [] OTHER -> UNCHANGED <<phase, error>>
    /\ UNCHANGED <<input, sent, timer, fsAccess, backendIn, headerLen,
                   clientOut, alertWrites, backend, c2b, b2c, shutdowns,
                   sentinel, lifecycle>>

\* Timeout with the 10 s set around all of connect_backend
TimeoutOfPhase ==
    /\ phase \in {"parse", "connect", "stat", "header", "replay"}
    /\ timer = "running"
    /\ timer' = "parse"
    /\ Raise(UserCanceled)
    /\ UNCHANGED <<input, sent, reader, frame, fsAccess, backendIn, headerLen,
                   clientOut, alertWrites, backend, c2b, b2c, shutdowns,
                   sentinel, lifecycle>>

\* line 283: the 10 s run out while get_server_name waits: Elapsed
Timeout ==
    /\ phase = "parse"
    /\ timer = "running"
    /\ timer' = "parse"
    /\ Raise(UserCanceled)
    /\ UNCHANGED <<input, sent, reader, frame, fsAccess, backendIn, headerLen,
                   clientOut, alertWrites, backend, c2b, b2c, shutdowns,
                   sentinel, lifecycle>>

\* ten seconds after the handler began, get_server_name having returned:
\* the timeout future is gone and nothing happens
TimerExpires ==
    /\ phase \in {"connect", "stat", "header", "replay", "splice"}
    /\ timer = "running"
    /\ timer' = IF phase = "splice" THEN "splice" ELSE "handoff"
    /\ UNCHANGED <<input, sent, reader, frame, phase, error, fsAccess,
                   backendIn, headerLen, clientOut, alertWrites, backend, c2b,
                   b2c, shutdowns, sentinel, lifecycle>>

\* lines 285-302
Connect ==
    /\ phase = "connect"
    /\ fsAccess' = Append(fsAccess, <<"connect", frame.result.name, "tls-socket">>)
    /\ \E outcome \in ConnectOutcomes :
          IF outcome = "Ok"
          THEN /\ phase' = "stat"
               /\ error' = error
               /\ backend' = [conn |-> outcome, rest |-> BackendBytes,
                               ending |-> "eof"]
          ELSE /\ Raise(ConnectError(outcome))
               /\ backend' = [backend EXCEPT !.conn = outcome]
    /\ UNCHANGED <<input, sent, reader, frame, timer, backendIn, headerLen,
                   clientOut, alertWrites, c2b, b2c, shutdowns, sentinel,
                   lifecycle>>

\* line 309
Stat ==
    /\ phase = "stat"
    /\ fsAccess' = Append(fsAccess, <<"metadata", frame.result.name, "send-proxy-v1">>)
    /\ \E is_ok \in BOOLEAN :
          /\ sentinel' = IF is_ok THEN "present" ELSE "absent"
          /\ phase' = IF is_ok THEN "header" ELSE "replay"
    /\ UNCHANGED <<input, sent, reader, frame, error, timer, backendIn,
                   headerLen, clientOut, alertWrites, backend, c2b, b2c,
                   shutdowns, lifecycle>>

\* lines 310-322
WriteHeader ==
    /\ phase = "header"
    /\ \E h \in {ProxyHeader(input.remote, input.local)} :
           \/ /\ backendIn' = backendIn \o h
              /\ headerLen' = Len(h)
              /\ phase' = "replay"
              /\ error' = error
           \/ \E w \in Partial(h) :
                 /\ backendIn' = backendIn \o w
                 /\ headerLen' = Len(w)
                 /\ Raise(InternalError)
    /\ UNCHANGED <<input, sent, reader, frame, timer, fsAccess, clientOut,
                   alertWrites, backend, c2b, b2c, shutdowns, sentinel,
                   lifecycle>>

\* line 325 and, when it succeeds, lines 332-369 up to the join
Replay ==
    /\ phase = "replay"
    /\ \E data \in {into_source(reader)} :
           \/ /\ backendIn' = backendIn \o data
              /\ phase' = "splice"
              /\ error' = error
              /\ c2b' = "running"
              /\ b2c' = "running"
           \/ \E w \in Partial(data) :
                 /\ backendIn' = backendIn \o w
                 /\ Raise(InternalError)
                 /\ UNCHANGED <<c2b, b2c>>
    /\ UNCHANGED <<input, sent, reader, frame, timer, fsAccess, headerLen,
                   clientOut, alertWrites, backend, shutdowns, sentinel,
                   lifecycle>>

\* lines 334-349: the alert is written once, a failure is ignored
SendAlert ==
    /\ phase = "alert"
    /\ alertWrites' = alertWrites + 1
    /\ \E a \in {Alert(error)} :
          \/ clientOut' = clientOut \o a
          \/ \E w \in Partial(a) : clientOut' = clientOut \o w
    /\ phase' = "closed"
    /\ UNCHANGED <<input, sent, reader, frame, error, timer, fsAccess,
                   backendIn, headerLen, backend, c2b, b2c, shutdowns,
                   sentinel, lifecycle>>

\* Joined for a handler that returns when either copy_all has
JoinedEither(x, y) == IF x = "done" \/ y = "done" THEN "closed" ELSE "splice"

\* handle_connection returns when both copy_all have
Joined(x, y) == IF x = "done" /\ y = "done" THEN "closed" ELSE "splice"

\* io::copy(client_in, backend_out) moves some bytes
CopyClientToBackend ==
    /\ phase = "splice" /\ c2b = "running"
    /\ reader.source.rest # <<>>
    /\ \E n \in {1, Len(reader.source.rest)} :
          /\ backendIn' = backendIn \o Take(reader.source.rest, n)
          /\ reader' = [reader EXCEPT !.source.rest = Drop(@, n)]
    /\ UNCHANGED <<input, sent, frame, phase, error, timer, fsAccess,
                   headerLen, clientOut, alertWrites, backend, c2b, b2c,
                   shutdowns, sentinel, lifecycle>>

\* io::copy(client_in, backend_out) ends, by end of stream or by an error of
\* either side; then backend_out.shutdown()
EndClientToBackend ==
    /\ phase = "splice" /\ c2b = "running"
    /\ \E cause \in {"eof", "error"} :
          cause = "eof" =>
             reader.source.rest = <<>> /\ reader.source.ending = "eof"
    /\ c2b' = "done"
    /\ shutdowns' = [shutdowns EXCEPT !.backend = @ + 1]
    /\ phase' = Joined("done", b2c)
    /\ UNCHANGED <<input, sent, reader, frame, error, timer, fsAccess,
                   backendIn, headerLen, clientOut, alertWrites, backend, b2c,
                   sentinel, lifecycle>>

\* io::copy(backend_in, client_out) moves some bytes
CopyBackendToClient ==
    /\ phase = "splice" /\ b2c = "running"
    /\ backend.rest # <<>>
    /\ \E n \in {1, Len(backend.rest)} :
          /\ clientOut' = clientOut \o Take(backend.rest, n)
          /\ backend' = [backend EXCEPT !.rest = Drop(@, n)]
    /\ UNCHANGED <<input, sent, reader, frame, phase, error, timer, fsAccess,
                   backendIn, headerLen, alertWrites, c2b, b2c, shutdowns,
                   sentinel, lifecycle>>

\* io::copy(backend_in, client_out) ends; then client_out.shutdown()
EndBackendToClient ==
    /\ phase = "splice" /\ b2c = "running"
    /\ \E cause \in {"eof", "error"} :
          cause = "eof" => backend.rest = <<>> /\ backend.ending = "eof"
    /\ b2c' = "done"
    /\ shutdowns' = [shutdowns EXCEPT !.client = @ + 1]
    /\ phase' = Joined(c2b, "done")
    /\ UNCHANGED <<input, sent, reader, frame, error, timer, fsAccess,
                   backendIn, headerLen, clientOut, alertWrites, backend, c2b,
                   sentinel, lifecycle>>

Next ==
    \/ ParseStep
    \/ Timeout
    \/ TimerExpires
    \/ Connect
    \/ Stat
    \/ WriteHeader
    \/ Replay
    \/ SendAlert
    \/ CopyClientToBackend
    \/ EndClientToBackend
    \/ CopyBackendToClient
    \/ EndBackendToClient

Spec == Init /\ [][Next]_vars

---------------------------------------------------------------------------
(* main and main_loop.

   A task is a handler spawned on the LocalSet, reduced to the stage of
   handle_connection it is in: "handshake" (connect_backend runs), "alert"
   (connect_backend has failed, the alert is due), "splice" (the two copy
   loops run), "closed" (it has returned), or "abandoned" (the process has
   exited before it returned). *)

\* a task when the LocalSet is dropped at the exit of the process
Dropped(stage) == IF stage = "closed" THEN "closed" ELSE "abandoned"

\* every handler has returned: the LocalSet, awaited, is ready
AllReturned == \A i \in DOMAIN tasks : tasks[i] = "closed"

MainInit ==
    /\ input = Base
    /\ Accepted
    /\ Listening

\* the process gets a SIGHUP; the signal stream keeps it until recv() takes it
Hangup ==
    /\ process # "exited"
    /\ ~hangup
    /\ hangup' = TRUE
    /\ UNCHANGED <<process, tasks, exit, connection>>

\* lines 389-392: accept() returns a connection, a handler is spawned
Accept ==
    /\ process = "accepting"
    /\ Len(tasks) < MaxConnections
    /\ tasks' = Append(tasks, "handshake")
    /\ UNCHANGED <<process, hangup, exit, connection>>

\* AcceptFails for a loop that breaks on an error of accept() as it does on
\* a hangup
AcceptFailsGracefully ==
    /\ process = "accepting"
    /\ process' = "grace"
    /\ UNCHANGED <<tasks, hangup, exit, connection>>

\* lines 389-392 and 404: accept() returns an error, `?` returns it from
\* main_loop and then from main
AcceptFails ==
    /\ process = "accepting"
    /\ process' = "exited"
    /\ exit' = "accept_error"
    /\ tasks' = [i \in DOMAIN tasks |-> Dropped(tasks[i])]
    /\ UNCHANGED <<hangup, connection>>

\* ReceiveHangup for a main that returns as soon as main_loop has
ReceiveHangupAndExit ==
    /\ process = "accepting"
    /\ hangup
    /\ hangup' = FALSE
    /\ process' = "exited"
    /\ exit' = "ok"
    /\ tasks' = [i \in DOMAIN tasks |-> Dropped(tasks[i])]
    /\ UNCHANGED connection

\* lines 393-398 and 404-405: recv() yields the hangup, the loop breaks,
\* main_loop returns Ok and main awaits the LocalSet for 10 s at most
ReceiveHangup ==
    /\ process = "accepting"
    /\ hangup
    /\ hangup' = FALSE
    /\ process' = "grace"
    /\ UNCHANGED <<tasks, exit, connection>>

\* lines 405-407: the LocalSet is ready before the 10 s are over
HandlersFinish ==
    /\ process = "grace"
    /\ AllReturned
    /\ process' = "exited"
    /\ exit' = "ok"
    /\ UNCHANGED <<tasks, hangup, connection>>

\* lines 405-407: the 10 s are over and a handler has not returned
GraceExpires ==
    /\ process = "grace"
    /\ ~AllReturned
    /\ process' = "exited"
    /\ exit' = "timed_out"
    /\ tasks' = [i \in DOMAIN tasks |-> Dropped(tasks[i])]
    /\ UNCHANGED <<hangup, connection>>

\* task i goes from stage `from` to stage `to`; the LocalSet is polled by
\* run_until and then by the timeout, so a task runs until main returns
Move(i, from, to) ==
    /\ process # "exited"
    /\ tasks[i] = from
    /\ tasks' = [tasks EXCEPT ![i] = to]
    /\ UNCHANGED <<process, hangup, exit, connection>>

\* lines 332-334: connect_backend returns Err
HandshakeFails == \E i \in DOMAIN tasks : Move(i, "handshake", "alert")

\* lines 332-333: connect_backend returns Ok
HandshakeSucceeds == \E i \in DOMAIN tasks : Move(i, "handshake", "splice")

\* lines 337-349: the alert is written, handle_connection returns
AlertWritten == \E i \in DOMAIN tasks : Move(i, "alert", "closed")

\* lines 366-369: both copy loops have ended, handle_connection returns
SpliceEnds == \E i \in DOMAIN tasks : Move(i, "splice", "closed")

MainNext ==
    \/ Hangup
    \/ Accept
    \/ AcceptFails
    \/ ReceiveHangup
    \/ HandlersFinish
    \/ GraceExpires
    \/ HandshakeFails
    \/ HandshakeSucceeds
    \/ AlertWritten
    \/ SpliceEnds

MainSpec == MainInit /\ [][MainNext]_vars

---------------------------------------------------------------------------
(* What the claims speak of *)

\* get_server_name has returned
Parsed == frame.result.kind # "none"

\* the alert record for description e, byte by byte
AlertBytes(e) == <<21, 3, 3, 0, 2, 2, e>>

\* where the record headers lie in the client's bytes, from the header at
\* `start` up to limit, each record being as long as its header states
RECURSIVE HeaderStarts(_, _, _)
HeaderStarts(bytes, start, limit) ==
    IF start >= limit \/ Len(bytes) < start + HeaderSize THEN <<>>
    ELSE <<start>>
         \o HeaderStarts(bytes,
                         start + HeaderSize + RecordLength(bytes, start),
                         limit)

\* the records the reader has stepped into
Entered(bytes) == HeaderStarts(bytes, 0, reader.limit)

\* handshake-stream bytes the cursor has passed (read or skipped)
Consumed(bytes) == reader.offset - HeaderSize * Len(Entered(bytes))

\* get_server_name runs, the cursor is at or past the end of the record it
\* is in, and the client has sent the next record's header
AtHeader(bytes) ==
    /\ phase = "parse"
    /\ reader.offset >= reader.limit
    /\ Len(bytes) >= reader.limit + HeaderSize

\* the step at f.pc gets to its read: no check before the read fails, and
\* no loop ends
NeedsByte(f) ==
    CASE f.pc \in {"handshake_type", "hello_length", "extension_length",
                   "name_length"} -> TRUE
      [] f.pc \in {"session_id", "compression"} -> f.hello_length >= 1
      [] f.pc \in {"cipher_suites", "extensions"} -> f.hello_length >= 2
      [] f.pc = "extension" -> f.hello_length >= 4
      [] f.pc = "server_name_list" ->
            f.hello_length >= f.length /\ f.length >= 2
      [] f.pc = "server_name" -> f.length >= 3
      [] f.pc = "name_byte" -> f.i < f.name_length
      [] OTHER -> FALSE

\* e is what the client gets, and the backend is left alone
Alerted(e) ==
    /\ error = e
    /\ fsAccess = <<>> /\ backend.conn = "none" /\ backendIn = <<>>
    /\ IsPrefix(clientOut, AlertBytes(e))
    /\ phase = "closed" => alertWrites = 1

\* the entries of the first server_name extension
HostEntries(in) ==
    IF FirstSni(in.exts, 1) = 0 THEN <<>>
    ELSE in.exts[FirstSni(in.exts, 1)].entries

\* the ClientHello has a host_name entry where get_server_name looks for one
HasHostName(in) ==
    \E j \in 1..Len(HostEntries(in)) :
       HostEntries(in)[j].ntype = TLS_SNI_HOST_NAME_TYPE

\* the name of the first host_name entry, as the client sent it
FirstHostName(in) ==
    HostEntries(in)[CHOOSE j \in 1..Len(HostEntries(in)) :
                       /\ HostEntries(in)[j].ntype = TLS_SNI_HOST_NAME_TYPE
                       /\ \A k \in 1..(j - 1) :
                             HostEntries(in)[k].ntype
                                # TLS_SNI_HOST_NAME_TYPE].name

---------------------------------------------------------------------------
(* C1: fragmentation transparency.  However the handshake bytes are split
   into handshake records, get_server_name returns what it returns when the
   same bytes come in one record (the same name or the same alert), also
   when a skipped field or a length field straddles a record boundary; and
   in both cases the buffer that is replayed holds exactly the bytes the
   client sent, up to at least the last byte the parser used. *)
C1_FragmentationTransparent ==
    (/\ Parsed /\ phase \in {"connect", "alert"}
     /\ input.bad = NoBad /\ input.cut = NoCut)
    => \A whole \in {ClientBytes([input EXCEPT !.frag = Whole])} :
          \A one \in {get_server_name([rest |-> whole,
                                       ending |-> input.ending])} :
             /\ one.st = "ok"
             /\ one.f.result = frame.result
             /\ IsPrefix(into_source(reader), sent)
             /\ IsPrefix(into_source(one.r), whole)
             /\ frame.result.kind = "ok" =>
                   /\ Len(into_source(reader)) >= reader.offset
                   /\ Len(into_source(one.r)) >= one.r.offset

\* a name found in a ClientHello sent one byte per record, with an
\* extension to skip before the server_name extension
C1_Witness ==
    /\ phase = "connect"
    /\ frame.result.kind = "ok"
    /\ input.frag = <<1>>
    /\ Len(input.exts) = 2
    /\ input.exts[1].etype # TLS_EXTENSION_SNI
    /\ input.ovr = NoOvr

---------------------------------------------------------------------------
\* a name that is safe as one relative path component
SafeName(n) ==
    /\ Len(n) >= 1 /\ Len(n) <= 254
    /\ \A i \in 1..Len(n) :
          \/ (n[i] >= 97 /\ n[i] <= 122)
          \/ (n[i] >= 48 /\ n[i] <= 57)
          \/ n[i] \in {45, 46}
    /\ n[1] \notin {45, 46}
    /\ \A i \in 1..(Len(n) - 1) : n[i] = 46 => n[i + 1] \notin {45, 46}
    /\ n[Len(n)] # 46

(* C2: traversal safety.  Every name a filesystem path was built from (the
   connect to name/tls-socket, the stat of name/send-proxy-v1) is the name
   get_server_name returned, is 1 to 254 bytes of [a-z0-9.-], does not start
   with '.' or '-', holds no ".." and no ".-" and does not end with '.', so
   it is not "", "." or ".." and holds no '/'; and while get_server_name has
   not returned a name, no path is built and no backend is contacted. *)
C2_TraversalSafe ==
    /\ \A i \in 1..Len(fsAccess) :
          /\ frame.result.kind = "ok"
          /\ fsAccess[i][2] = frame.result.name
          /\ SafeName(fsAccess[i][2])
          /\ fsAccess[i][2] \notin {<<>>, <<46>>, <<46, 46>>}
          /\ \A j \in 1..Len(fsAccess[i][2]) : fsAccess[i][2][j] # 47
    /\ frame.result.kind # "ok" =>
          /\ fsAccess = <<>>
          /\ backend.conn = "none"
          /\ backendIn = <<>>

\* the ClientHello names "A.0": the socket a.0/tls-socket was connected to
\* and a.0/send-proxy-v1 was looked up
C2_Witness ==
    /\ HasHostName(input)
    /\ FirstHostName(input) = <<65, 46, 48>>
    /\ fsAccess = << <<"connect", <<97, 46, 48>>, "tls-socket">>,
                     <<"metadata", <<97, 46, 48>>, "send-proxy-v1">> >>

---------------------------------------------------------------------------
\* ASCII uppercase folded to lowercase
Folded(n) == [i \in 1..Len(n) |-> IF n[i] \in 65..90 THEN n[i] + 32 ELSE n[i]]

\* n holds "..", or a byte outside [a-z0-9.-]
DoubleDotOrForeign(n) ==
    \/ \E i \in 1..(Len(n) - 1) : n[i] = 46 /\ n[i + 1] = 46
    \/ \E i \in 1..Len(n) :
          n[i] \notin (97..122) \cup (48..57) \cup {45, 46}

\* n is empty, begins with '.' or '-', ends with a byte of `ends`, holds
\* "..", or holds a byte outside [a-z0-9.-]
Invalid(n, ends) ==
    \/ n = <<>>
    \/ n # <<>> /\ (n[1] \in {45, 46} \/ n[Len(n)] \in ends)
    \/ DoubleDotOrForeign(n)

\* a ClientHello with a host_name entry, its records and length fields
\* well-formed and all delivered
WellFormedHello(in) ==
    /\ in.htype = TLS_HANDSHAKE_TYPE_CLIENT_HELLO
    /\ HasHostName(in)
    /\ in.ovr = NoOvr /\ in.bad = NoBad /\ in.cut = NoCut

\* connect_backend is past get_server_name, which the timer did not cut short
Returned == phase # "parse" /\ timer # "parse"

\* alert 112 is what the client gets, and the backend is left alone
Refused ==
    /\ frame.result = Err(UnrecognizedName)
    /\ Alerted(112)

(* C3, as the spec states it: a first host_name that, once folded to
   lowercase, is empty, begins with '.' or '-', ends with '.' or '-', holds
   ".." or a byte outside [a-z0-9.-] is answered by alert 112 and no backend
   is contacted.  The code accepts a name that ends with '-'. *)
C3_AsStated ==
    (/\ WellFormedHello(input)
     /\ Invalid(Folded(FirstHostName(input)), {45, 46})
     /\ Returned)
    => Refused

(* C3: a ClientHello, well-formed and all delivered before the timer
   expires, whose first host_name, once folded to lowercase, is empty,
   begins with '.' or '-', ends with '.', holds ".." or a byte outside
   [a-z0-9.-], is answered by the fatal alert 112 (unrecognized_name), and
   no backend is contacted. *)
C3_InvalidNameRefused ==
    (/\ WellFormedHello(input)
     /\ Invalid(Folded(FirstHostName(input)), {46})
     /\ Returned)
    => Refused

\* the name "A." is refused: the client has the whole alert 112
C3_Witness ==
    /\ WellFormedHello(input)
    /\ FirstHostName(input) = <<65, 46>>
    /\ phase = "closed"
    /\ clientOut = AlertBytes(112)
    /\ fsAccess = <<>>

---------------------------------------------------------------------------
\* the ClientHello is otherwise well-formed and all of it is delivered
OnlyRecordDamaged(in) ==
    /\ in.htype = TLS_HANDSHAKE_TYPE_CLIENT_HELLO
    /\ in.ovr = NoOvr /\ in.cut = NoCut

(* C4, as the spec states it: when a record whose content_type is not 0x16
   appears before the ClientHello is complete, the client gets alert 10 and
   no backend is contacted.  get_server_name returns at the end of the first
   host_name: a record after that byte is not looked at. *)
C4_AsStated ==
    (/\ OnlyRecordDamaged(input)
     /\ input.bad.kind \in {"type", "typeover"}
     /\ Returned)
    => Alerted(UnexpectedMessage)

(* C4: when get_server_name reads on and the next record's content_type is
   not 0x16, it returns unexpected_message: the client gets the fatal alert
   10 and the connection is closed without contacting any backend; the
   reader never steps into a record that is not a handshake record. *)
C4_NonHandshakeRecord ==
    /\ \A es \in {Entered(sent)} :
          \A i \in 1..Len(es) : sent[es[i] + 1] = TLS_HANDSHAKE_CONTENT_TYPE
    /\ (AtHeader(sent) /\ sent[reader.limit + 1] # 22) =>
          \A g \in BOOLEAN :
             /\ \A b \in {read(reader, g)} : b.st = "err" /\ b.v = 10
             /\ NeedsByte(frame) =>
                   GsnStep(reader, frame, g).f.result = Err(10)
    /\ error = 10 => Alerted(10)

\* the second record is an application_data record: the client has the whole
\* alert 10
C4_Witness ==
    /\ input.bad = [kind |-> "type", idx |-> 2]
    /\ input.frag = <<3>>
    /\ Len(reader.buffer) >= reader.limit + HeaderSize
    /\ reader.buffer[reader.limit + 1] = 23
    /\ phase = "closed"
    /\ clientOut = AlertBytes(10)

---------------------------------------------------------------------------
(* C5, as the spec states it: when any record states a length above 2^14,
   the client gets alert 22.  A record after the last byte get_server_name
   reads is not looked at, and the content type is checked before the
   length. *)
C5_AsStated ==
    (/\ OnlyRecordDamaged(input)
     /\ input.bad.kind \in {"over", "typeover"}
     /\ Returned)
    => Alerted(RecordOverflow)

(* C5: when get_server_name reads on and the next record is a handshake
   record whose header states a length above 2^14, it returns
   record_overflow and the client gets the fatal alert 22; the reader never
   steps into a record of more than 2^14 bytes. *)
C5_RecordOverflow ==
    /\ \A es \in {Entered(sent)} :
          \A i \in 1..Len(es) : RecordLength(sent, es[i]) \in 1..16384
    /\ (/\ AtHeader(sent)
        /\ sent[reader.limit + 1] = 22
        /\ sent[reader.limit + 4] * 256 + sent[reader.limit + 5] > 16384) =>
          \A g \in BOOLEAN :
             /\ \A b \in {read(reader, g)} : b.st = "err" /\ b.v = 22
             /\ NeedsByte(frame) =>
                   GsnStep(reader, frame, g).f.result = Err(22)
    /\ error = 22 => Alerted(22)

\* the second record states 2^14 + 1 bytes: the client has the whole alert 22
C5_Witness ==
    /\ input.bad = [kind |-> "over", idx |-> 2]
    /\ input.frag = <<3>>
    /\ Len(reader.buffer) >= reader.limit + HeaderSize
    /\ RecordLength(reader.buffer, reader.limit) = 16385
    /\ phase = "closed"
    /\ clientOut = AlertBytes(22)

---------------------------------------------------------------------------
\* the length the handshake header declares for the ClientHello body
Declared(in) == Stated(in, "hello", Len(HelloBody(in)))

\* what is left of the budgets that enclose the cursor: the handshake body
\* and, inside the server_name extension, the server_name_list
Budget(f) ==
    f.hello_length
    + (IF f.pc \in {"server_name", "name_length", "host_name", "name_byte"}
       THEN f.length ELSE 0)

\* bytes charged to the budget and not read yet
ChargedAhead(f) ==
    CASE f.pc \in {"extension_length", "name_length"} -> 2
      [] f.pc = "name_byte" -> f.name_length - f.i
      [] f.pc = "host_name" /\ f.result.kind = "err" -> f.name_length
      [] OTHER -> 0

\* the ClientHello has the length field that in.ovr misstates, and the
\* value stated is more than the enclosing length has left
Overstated(in) ==
    /\ in.ovr.value \in {255, 300}
    /\ CASE in.ovr.field \in {"sid", "cs", "comp"} -> TRUE
         [] in.ovr.field = "exts" -> in.hasExts
         [] in.ovr.field = "ext" -> in.hasExts /\ in.exts # <<>>
         [] in.ovr.field = "list" -> in.hasExts /\ FirstSni(in.exts, 1) # 0
         [] in.ovr.field = "name" -> in.hasExts /\ HostEntries(in) # <<>>
         [] OTHER -> FALSE

(* C6: scoped length budgets.  After the 4-byte handshake header every byte
   get_server_name reads or skips has been charged to the enclosing budget
   (the handshake body; inside the server_name extension, the
   server_name_list): what the cursor has passed, what is charged ahead of
   it and what the budgets have left add up to the declared length of the
   handshake body, and no budget is negative, so the bytes read never exceed
   the enclosing declared length.  A length field that states more than the
   enclosing budget has left yields decode_error and alert 50, also for a
   name length above 254: the charge comes before that check. *)
C6_ScopedBudgets ==
    /\ frame.hello_length >= 0 /\ frame.length >= 0
    /\ frame.i <= frame.name_length
    /\ (/\ input.bad.kind # "max"
        /\ frame.pc \notin {"handshake_type", "hello_length"}
        /\ (frame.result.kind # "err"
            \/ (frame.pc = "host_name" /\ frame.result.code = 112))) =>
          /\ Budget(frame) + ChargedAhead(frame) + Consumed(sent) - 4
                = Declared(input)
          /\ Consumed(sent) - 4 <= Declared(input)
    /\ (/\ phase = "parse" /\ frame.pc = "host_name"
        /\ frame.name_length > frame.length) =>
          GsnStep(reader, frame, FALSE).f.result = Err(50)
    /\ (/\ Overstated(input)
        /\ input.htype = TLS_HANDSHAKE_TYPE_CLIENT_HELLO
        /\ input.bad = NoBad /\ input.cut = NoCut
        /\ Returned) =>
          frame.result = Err(50) /\ Alerted(50)

\* a host_name entry states 300 bytes, more than its list holds and more
\* than 254: the client has the whole alert 50
C6_Witness ==
    /\ input.ovr = [field |-> "name", value |-> 300]
    /\ frame.pc = "host_name"
    /\ frame.name_length = 300
    /\ phase = "closed"
    /\ clientOut = AlertBytes(50)

---------------------------------------------------------------------------
\* the bytes written to the backend after the PROXY header
Forwarded == Drop(backendIn, headerLen)

\* connect_backend has returned Ok: the splice runs or has ended
Spliced == phase = "splice" \/ (phase = "closed" /\ error = 0)

(* C7: byte-exact replay.  The replay writes the reader's whole buffer,
   lookahead beyond the cursor included, and the splice goes on from the
   first client byte not read yet: in every state the bytes written to the
   backend after the PROXY header are a prefix of the bytes the client sent;
   once the phase has succeeded they are, with the bytes not read yet, all
   the client sent, none dropped, repeated or altered; and until the replay
   is complete they are bytes of the reader's buffer only. *)
C7_ByteExactReplay ==
    /\ ~Spliced => reader.buffer \o reader.source.rest = sent
    /\ headerLen <= Len(backendIn)
    /\ IsPrefix(Take(backendIn, headerLen),
                ProxyHeader(input.remote, input.local))
    /\ \A fwd \in {Forwarded} :
          /\ IsPrefix(fwd, sent)
          /\ Spliced =>
                /\ IsPrefix(into_source(reader), fwd)
                /\ fwd \o reader.source.rest = sent
          /\ ~Spliced => IsPrefix(fwd, into_source(reader))

\* the reader had read the application data record that follows the
\* ClientHello before the name was found; after the PROXY header the backend
\* has it all, and the client's end of stream has been passed on
C7_Witness ==
    /\ phase = "splice"
    /\ input.tail = AppData
    /\ Len(reader.buffer) > reader.offset
    /\ headerLen > 0
    /\ Forwarded = sent
    /\ c2b = "done"

---------------------------------------------------------------------------
(* C8: alert exactly once, exclusive with the splice.  When connect_backend
   fails with error e, e is one of 10, 22, 50, 80, 90, 112, the handler
   writes the 7 bytes 15 03 03 00 02 02 e to the client, once at most and
   whether or not the write succeeds, nothing else reaches the client and
   the splice never starts; when connect_backend succeeds no alert is
   written, whatever happens during the splice: the client gets bytes of
   the backend only. *)
C8_AlertOnce ==
    /\ error # 0 =>
          /\ error \in {10, 22, 50, 80, 90, 112}
          /\ phase \in {"alert", "closed"}
          /\ alertWrites = (IF phase = "closed" THEN 1 ELSE 0)
          /\ IsPrefix(clientOut, AlertBytes(error))
          /\ phase = "alert" => clientOut = <<>>
          /\ c2b = "idle" /\ b2c = "idle"
          /\ shutdowns = [backend |-> 0, client |-> 0]
    /\ error = 0 =>
          /\ alertWrites = 0
          /\ phase # "alert"
          /\ IsPrefix(clientOut, BackendBytes)
          /\ clientOut # <<>> => Spliced
    /\ Spliced => error = 0 /\ backend.conn = "Ok"

\* the replay failed after the PROXY header: one alert write, alert 80 whole
C8_Witness ==
    /\ error = 80
    /\ headerLen > 0
    /\ phase = "closed"
    /\ alertWrites = 1
    /\ clientOut = AlertBytes(80)

---------------------------------------------------------------------------
(* C9, as the spec states it: the 10 seconds bound the whole phase, parsing,
   backend dial, PROXY header and replay: when they run out before the
   replay is complete the phase is aborted and the client gets alert 90.
   The timeout wraps get_server_name only. *)
C9_AsStated ==
    timer \in {"parse", "handoff"} =>
       /\ ~Spliced
       /\ phase \in {"alert", "closed"} => error = 90

(* C9: the 10-second timer started when the handler begins bounds the
   parsing of the ClientHello: when the 10 seconds run out before
   get_server_name has returned, the phase is aborted, no backend is
   contacted and the client gets the fatal alert 90 (user_canceled); once
   get_server_name has returned, during the backend dial, the PROXY header
   write, the replay and the splice, the timer can no longer fire. *)
C9_TimerBoundsParsing ==
    /\ timer = "parse" =>
          /\ frame.result.kind = "none"
          /\ Alerted(90)
    /\ error = 90 => timer = "parse"
    /\ timer \in {"handoff", "splice"} =>
          /\ frame.result.kind = "ok"
          /\ error # 90
    /\ (timer = "handoff" /\ phase = "closed") => error \in {0, 80, 112}

\* the client stops sending in the middle of the ClientHello: the 10 s run
\* out and the client has the whole alert 90
C9_Witness ==
    /\ input.ending = "stall"
    /\ input.cut # NoCut
    /\ timer = "parse"
    /\ phase = "closed"
    /\ clientOut = AlertBytes(90)
    /\ reader.source.rest = <<>>

---------------------------------------------------------------------------
(* C10: classification of the errors after the name.  A connect to
   name/tls-socket that fails with not-found, permission-denied or
   connection-refused yields alert 112; a connect that fails otherwise
   yields alert 80; and once the connect has succeeded an I/O error while
   the PROXY header is written or the buffer is replayed yields alert 80,
   never 112. *)
C10_ResolveErrors ==
    /\ backend.conn # "none" =>
          /\ frame.result.kind = "ok"
          /\ fsAccess # <<>>
          /\ fsAccess[1] = <<"connect", frame.result.name, "tls-socket">>
    /\ backend.conn \in {"NotFound", "PermissionDenied", "ConnectionRefused"}
          => error = 112 /\ Len(fsAccess) = 1 /\ backendIn = <<>>
    /\ backend.conn \in {"TimedOut", "Other"}
          => error = 80 /\ Len(fsAccess) = 1 /\ backendIn = <<>>
    /\ backend.conn = "Ok" => error \in {0, 80}
    /\ (backend.conn = "Ok" /\ error = 80) =>
          /\ phase \in {"alert", "closed"}
          /\ \/ Len(backendIn) = headerLen
                /\ Len(backendIn) < Len(ProxyHeader(input.remote,
                                                    input.local))
             \/ Len(Forwarded) < Len(reader.buffer)
    /\ (frame.result.kind = "ok" /\ error # 0) =>
          /\ backend.conn \notin {"none"}
          /\ IsPrefix(clientOut, AlertBytes(error))

\* the write of the PROXY header failed half-way: alert 80
C10_Witness ==
    /\ backend.conn = "Ok"
    /\ error = 80
    /\ headerLen > 0
    /\ Len(backendIn) = headerLen
    /\ Len(fsAccess) = 2
    /\ clientOut = AlertBytes(80)

---------------------------------------------------------------------------
\* "PROXY TCP4 203.0.113.7 198.51.100.1 51000 443\r\n"
HeaderTcp4 ==
    <<80, 82, 79, 88, 89, 32, 84, 67, 80, 52, 32, 50, 48, 51, 46, 48, 46, 49,
    49, 51, 46, 55, 32, 49, 57, 56, 46, 53, 49, 46, 49, 48, 48, 46, 49, 32,
    53, 49, 48, 48, 48, 32, 52, 52, 51, 13, 10>>

\* "PROXY TCP6 2001:db8::7 ::1 51000 443\r\n"
HeaderTcp6 ==
    <<80, 82, 79, 88, 89, 32, 84, 67, 80, 54, 32, 50, 48, 48, 49, 58, 100, 98,
    56, 58, 58, 55, 32, 58, 58, 49, 32, 53, 49, 48, 48, 48, 32, 52, 52, 51,
    13, 10>>

\* the header for the connection `in` describes: the client is the source,
\* the proxy's accepting address the destination
WireHeader(in) ==
    IF in.remote = R4 /\ in.local = L4 THEN HeaderTcp4
    ELSE IF in.remote = R6 /\ in.local = L6 THEN HeaderTcp6
    ELSE <<>>

\* connect_backend is past the PROXY header: the replay is due or done
PastHeader == phase = "replay" \/ Spliced \/ Forwarded # <<>>

(* C11: PROXY v1 gating and ordering.  name/send-proxy-v1 is looked up once,
   after the connect to name/tls-socket has succeeded; the header is written
   if and only if that lookup found the file; the backend then gets the
   whole header, once, before the first replayed byte, and never a replayed
   byte after a header cut short; the header names TCP4 for an IPv4 client
   and TCP6 for an IPv6 client, then the client's address, the proxy's
   address, the client's port and the proxy's port; and when the file is
   not found the first byte the backend gets is the client's first byte. *)
C11_ProxyGating ==
    /\ sentinel = "unasked" => backendIn = <<>>
    /\ sentinel # "unasked" =>
          /\ backend.conn = "Ok"
          /\ fsAccess = << <<"connect", frame.result.name, "tls-socket">>,
                           <<"metadata", frame.result.name,
                             "send-proxy-v1">> >>
    /\ headerLen > 0 => sentinel = "present"
    /\ sentinel = "absent" =>
          /\ headerLen = 0
          /\ IsPrefix(backendIn, sent)
          /\ backendIn # <<>> => backendIn[1] = sent[1]
    /\ sentinel = "present" =>
          /\ WireHeader(input) # <<>>
          /\ IsPrefix(Take(backendIn, headerLen), WireHeader(input))
          /\ PastHeader =>
                /\ Take(backendIn, headerLen) = WireHeader(input)
                /\ IsPrefix(Forwarded, sent)
          /\ phase = "header" => backendIn = <<>>
    /\ PastHeader => (headerLen > 0 <=> sentinel = "present")

\* an IPv6 client, the file is there: the backend has the TCP6 header and
\* then the client's bytes
C11_Witness ==
    /\ sentinel = "present"
    /\ input.remote = R6
    /\ phase = "splice"
    /\ backendIn = HeaderTcp6 \o sent
    /\ sent # <<>>

---------------------------------------------------------------------------
\* the source of a copy loop has been read to its end
ClientAtEof == reader.source.rest = <<>> /\ reader.source.ending = "eof"
BackendAtEof == backend.rest = <<>> /\ backend.ending = "eof"

\* a step in which the client-to-backend loop ends leaves the other loop
\* alone, and the other way round
EndsAlone ==
    /\ (c2b = "running" /\ c2b' = "done") =>
          /\ b2c' = b2c /\ backend' = backend /\ clientOut' = clientOut
          /\ shutdowns' = [shutdowns EXCEPT !.backend = @ + 1]
    /\ (b2c = "running" /\ b2c' = "done") =>
          /\ c2b' = c2b /\ reader' = reader /\ backendIn' = backendIn
          /\ shutdowns' = [shutdowns EXCEPT !.client = @ + 1]

(* C12: independent half-close.  Both copy loops start when the replay has
   succeeded and run side by side; a loop can forward as long as its source
   has bytes and can end as soon as its source is at end of stream, whatever
   the other loop does; the step that ends a loop shuts down its
   destination's write half, once, and changes nothing of the other loop,
   which goes on forwarding; and handle_connection returns only when both
   loops have ended. *)
C12_IndependentHalfClose ==
    /\ [](/\ (c2b # "idle" \/ b2c # "idle") => Spliced
          /\ Spliced => c2b # "idle" /\ b2c # "idle"
          /\ shutdowns.backend = (IF c2b = "done" THEN 1 ELSE 0)
          /\ shutdowns.client = (IF b2c = "done" THEN 1 ELSE 0)
          /\ phase = "splice" => c2b = "running" \/ b2c = "running"
          /\ (Spliced /\ phase = "closed") => c2b = "done" /\ b2c = "done"
          /\ (c2b = "running" /\ reader.source.rest # <<>>) =>
                ENABLED CopyClientToBackend
          /\ (b2c = "running" /\ backend.rest # <<>>) =>
                ENABLED CopyBackendToClient
          /\ (c2b = "running" /\ ClientAtEof) => ENABLED EndClientToBackend
          /\ (b2c = "running" /\ BackendAtEof) => ENABLED EndBackendToClient)
    /\ [][EndsAlone]_vars
    /\ [][(phase = "splice" /\ phase' = "closed") =>
             c2b' = "done" /\ b2c' = "done"]_vars

\* the client's direction has ended and the backend's write half is shut
\* down, while the other direction is half-way through the backend's bytes
C12_Witness ==
    /\ phase = "splice"
    /\ c2b = "done" /\ shutdowns.backend = 1
    /\ b2c = "running" /\ shutdowns.client = 0
    /\ clientOut # <<>> /\ backend.rest # <<>>

---------------------------------------------------------------------------
\* task i can take its next step
CanRun(i) ==
    CASE tasks[i] = "handshake" ->
            ENABLED Move(i, "handshake", "alert")
            /\ ENABLED Move(i, "handshake", "splice")
      [] tasks[i] = "alert" -> ENABLED Move(i, "alert", "closed")
      [] tasks[i] = "splice" -> ENABLED Move(i, "splice", "closed")
      [] OTHER -> TRUE

(* C13: graceful shutdown.  The step in which recv() yields the hangup ends
   the accept loop and leaves every handler as it is; from then on no
   handler is spawned; during the grace period no handler is abandoned and
   each one that has not returned can take its next step; the process exits
   with Ok once every handler has returned, which is at once when none is
   running, and otherwise when the 10 s are over, and only then are the
   handlers still running abandoned. *)
C13_GracefulShutdown ==
    /\ [][(hangup /\ ~hangup') =>
             /\ process = "accepting" /\ process' = "grace"
             /\ tasks' = tasks /\ exit' = "none"]_vars
    /\ [][process # "accepting" => Len(tasks') = Len(tasks)]_vars
    /\ [][(process = "grace" /\ process' # "grace") =>
             /\ process' = "exited"
             /\ IF AllReturned
                THEN exit' = "ok" /\ tasks' = tasks
                ELSE /\ exit' = "timed_out"
                     /\ tasks' = [i \in DOMAIN tasks |-> Dropped(tasks[i])]]_vars
    /\ [](process = "grace" =>
            /\ exit = "none"
            /\ \A i \in DOMAIN tasks : tasks[i] # "abandoned" /\ CanRun(i)
            /\ ENABLED HandlersFinish <=> AllReturned
            /\ ENABLED GraceExpires <=> ~AllReturned
            /\ ~ENABLED Accept)
    /\ [](exit = "ok" => process = "exited" /\ AllReturned)
    /\ [](exit = "timed_out" =>
            /\ process = "exited"
            /\ \E i \in DOMAIN tasks : tasks[i] = "abandoned"
            /\ \A i \in DOMAIN tasks : tasks[i] \in {"closed", "abandoned"})

\* after the hangup one handler returned within the 10 s, another was still
\* in its splice and a third in its handshake when they were over
C13_Witness ==
    /\ exit = "timed_out"
    /\ \E i, j, k \in DOMAIN tasks :
          /\ i < j /\ j < k
          /\ tasks[i] = "closed"
          /\ tasks[j] = "abandoned" /\ tasks[k] = "abandoned"

---------------------------------------------------------------------------
\* a step in which the handshake of task i fails changes nothing else
FailsAlone(i) ==
    (tasks[i] = "handshake" /\ tasks'[i] = "alert") =>
       /\ process' = process /\ exit' = exit /\ hangup' = hangup
       /\ Len(tasks') = Len(tasks)
       /\ \A j \in DOMAIN tasks : j # i => tasks'[j] = tasks[j]

(* C20: an accept failure is not a graceful shutdown.  While the loop runs,
   accept() can fail whatever the handlers do; the step in which it fails
   takes the process from the accept loop straight to its exit, with the
   error, and abandons every handler that has not returned; the grace
   period is entered by a hangup only.  A handler whose handshake fails
   changes nothing of the loop or of another handler, the loop goes on
   accepting, and the other handlers go on running. *)
C20_AcceptFailure ==
    /\ [][(exit = "none" /\ exit' = "accept_error") =>
             /\ process = "accepting" /\ process' = "exited"
             /\ tasks' = [i \in DOMAIN tasks |-> Dropped(tasks[i])]]_vars
    /\ [][(process = "accepting" /\ process' = "grace") =>
             hangup /\ ~hangup']_vars
    /\ [][(process = "accepting" /\ process' = "exited") =>
             exit' = "accept_error"]_vars
    /\ [](exit = "accept_error" =>
            /\ process = "exited"
            /\ \A i \in DOMAIN tasks : tasks[i] \in {"closed", "abandoned"})
    /\ [](process = "accepting" =>
            /\ exit = "none"
            /\ ENABLED AcceptFails
            /\ Len(tasks) < MaxConnections => ENABLED Accept
            /\ \A i \in DOMAIN tasks : tasks[i] # "abandoned" /\ CanRun(i))
    /\ [][\A i \in DOMAIN tasks : FailsAlone(i)]_vars

\* accept() failed after one handler had returned: one in its handshake and
\* one in its splice are abandoned, no hangup was ever delivered
C20_Witness ==
    /\ exit = "accept_error"
    /\ ~hangup
    /\ \E i, j, k \in DOMAIN tasks :
          /\ tasks[i] = "closed"
          /\ tasks[j] = "abandoned" /\ tasks[k] = "abandoned"
          /\ i # j /\ j # k /\ i # k

---------------------------------------------------------------------------
\* the canonicalizer as a function of the host_name bytes: what
\* get_server_name returns for a ClientHello whose only host_name is n
Canon(n) ==
    get_server_name([rest |-> ClientBytes(WithName(n)),
                     ending |-> "eof"]).f.result

\* an ASCII letter in the other case
OtherCase(b) ==
    IF b \in 65..90 THEN b + 32 ELSE IF b \in 97..122 THEN b - 32 ELSE b

\* names that differ from n in the case of ASCII letters only: any of the
\* first MaxNameLen letters, or all of them
CaseVariants(n) ==
    {[i \in 1..Len(n) |-> IF i \in S THEN OtherCase(n[i]) ELSE n[i]] :
        S \in {1..Len(n)} \cup SUBSET (1..Min(Len(n), MaxNameLen))}

(* C14: canonicalization is idempotent.  When get_server_name accepts the
   host_name the client sent and returns c, then c presented as the
   host_name is accepted and yields c again, and every name that differs
   from the client's in the case of ASCII letters only and is accepted
   yields c as well. *)
C14_Idempotent ==
    (phase = "connect" /\ WellFormedHello(input)) =>
       \A c \in {frame.result.name} :
          /\ frame.result = Ok(c)
          /\ Canon(FirstHostName(input)) = Ok(c)
          /\ Canon(c) = Ok(c)
          /\ \A m \in CaseVariants(FirstHostName(input)) :
                \A r \in {Canon(m)} : r.kind = "ok" => r = Ok(c)

\* "A.0" was accepted as "a.0"
C14_Witness ==
    /\ phase = "connect"
    /\ WellFormedHello(input)
    /\ FirstHostName(input) = <<65, 46, 48>>
    /\ frame.result = Ok(<<97, 46, 48>>)

---------------------------------------------------------------------------
\* positions of get_server_name that follow a read with no seek after it
AfterRead(f) ==
    /\ f.result.kind = "none"
    /\ \/ f.pc \in {"hello_length", "version_random", "extension_length",
                     "server_name_list", "name_length", "host_name"}
       \/ f.pc = "name_byte" /\ f.i > 0

\* the cursor is within the current record and within the buffer
CursorInside(r) == r.offset <= r.limit /\ r.offset <= Len(r.buffer)

(* C15, as the spec states it: between any two operations of the reader,
   offset <= limit <= buffer.len().  read moves limit to the end of the
   record it steps into and buffers up to the byte it returns only, and seek
   moves offset whatever limit and the buffer are. *)
C15_AsStated ==
    reader.offset <= reader.limit /\ reader.limit <= Len(reader.buffer)

(* C15: the cursor of the reader.  After new, and after every read and
   read_length that succeeds, offset <= limit and offset <= buffer.len():
   the cursor is within the current record and within the buffer.  (limit
   exceeds buffer.len() while the current record is not all buffered, and a
   seek can leave offset beyond both until the next read.) *)
C15_CursorAfterRead ==
    /\ reader.offset >= 0 /\ reader.limit >= 0
    /\ Len(reader.buffer) <= Len(sent)
    /\ \A r \in {new(reader.source)} : CursorInside(r) /\ r.limit = 0
    /\ phase = "parse" =>
          /\ AfterRead(frame) => CursorInside(reader)
          /\ \A g \in BOOLEAN, w \in 1..3 :
                \A x \in {read_length(reader, w, g)} :
                   x.st = "ok" =>
                      /\ CursorInside(x.r)
                      /\ x.r.offset > reader.offset

\* after a read, in a ClientHello sent three bytes a record: the cursor is
\* within the record, whose end is not buffered yet
C15_Witness ==
    /\ phase = "parse"
    /\ AfterRead(frame)
    /\ frame.pc = "name_length"
    /\ input.frag = <<3>>
    /\ reader.offset < reader.limit
    /\ reader.offset = Len(reader.buffer)
    /\ reader.limit > Len(reader.buffer)

---------------------------------------------------------------------------
\* r with the two legacy_version bytes of the header at its limit replaced
Reversioned(r, all) ==
    [r EXCEPT !.buffer = Take(all, Len(r.buffer)),
              !.source.rest = Drop(all, Len(r.buffer))]

\* the bytes of r, buffered or not, with other legacy_version bytes in the
\* header at its limit
OtherVersion(r) ==
    [i \in 1..(Len(r.buffer) + Len(r.source.rest)) |->
        IF i \in {r.limit + 2, r.limit + 3} THEN 9
        ELSE (r.buffer \o r.source.rest)[i]]

\* position p (0-based) of the client's bytes lies in one of the record
\* headers that start at hs
InHeader(p, hs) == \E i \in 1..Len(hs) : hs[i] <= p /\ p < hs[i] + HeaderSize

(* C16: the order of the record header checks.  Whenever the reader needs a
   byte with its cursor at or past the end of the current record, and the
   next header has been sent, the loop of read ends with alert code 10 when
   the header's content type is not 0x16, whatever its length; else with 50
   when its length is 0; else with 22 when its length is above 2^14; else
   it steps into the record, offset 5 and limit 5 + length further, a length
   of exactly 2^14 included.  The outcome does not depend on the header's
   legacy_version bytes, and the byte a read returns never lies in a record
   header: it is the next byte of the handshake message. *)
C16_HeaderOrder ==
    /\ AtHeader(sent) =>
          \A ct \in {sent[reader.limit + 1]},
             len \in {sent[reader.limit + 4] * 256 + sent[reader.limit + 5]},
             g \in BOOLEAN :
             \A b \in {NextRecord(reader, g)} :
                /\ ct # 22 => b.st = "err" /\ b.v = 10
                /\ (ct = 22 /\ len = 0) => b.st = "err" /\ b.v = 50
                /\ (ct = 22 /\ len > 16384) => b.st = "err" /\ b.v = 22
                /\ (ct = 22 /\ len \in 1..16384
                    /\ reader.offset < reader.limit + len) =>
                      /\ b.st = "ok"
                      /\ b.r.offset = reader.offset + 5
                      /\ b.r.limit = reader.limit + 5 + len
                /\ \A o \in {NextRecord(Reversioned(reader,
                                                     OtherVersion(reader)),
                                         g)} :
                      /\ o.st = b.st /\ o.v = b.v
                      /\ o.r.offset = b.r.offset /\ o.r.limit = b.r.limit
    /\ phase = "parse" =>
          \A g \in BOOLEAN :
             \A x \in {read(reader, g)} :
                x.st = "ok" =>
                   /\ ~InHeader(x.r.offset - 1,
                                HeaderStarts(sent, 0, x.r.limit))
                   /\ (input.bad = NoBad /\ input.cut = NoCut) =>
                         \A hs \in {HelloBytes(input)} :
                            /\ Consumed(sent) < Len(hs)
                            /\ x.v = hs[Consumed(sent) + 1]

\* a record whose header states 2^14 bytes has been stepped into
C16_Witness ==
    /\ phase = "parse"
    /\ input.bad.kind = "max"
    /\ reader.offset < reader.limit
    /\ reader.limit > MaxRecordLength
    /\ RecordLength(sent, Entered(sent)[Len(Entered(sent))]) = 16384

---------------------------------------------------------------------------
\* the index of the first host_name entry among es from j on, or 0
RECURSIVE FirstHost(_, _)
FirstHost(es, j) ==
    IF j > Len(es) THEN 0
    ELSE IF es[j].ntype = TLS_SNI_HOST_NAME_TYPE THEN j
    ELSE FirstHost(es, j + 1)

\* the ClientHello cut after what get_server_name looks at: the first
\* host_name entry of the first server_name extension; that extension when
\* it holds no host_name; everything when there is no such extension
Examined(in) ==
    IF FirstSni(in.exts, 1) = 0 THEN in
    ELSE [in EXCEPT
             !.exts =
                Take(in.exts, FirstSni(in.exts, 1) - 1)
                \o <<[in.exts[FirstSni(in.exts, 1)] EXCEPT
                         !.entries =
                            IF FirstHost(@, 1) = 0 THEN @
                            ELSE Take(@, FirstHost(@, 1))]>>]

\* what the first host_name entry alone determines
NameResult(n) ==
    IF SafeName(Folded(n))
    THEN [kind |-> "ok", code |-> 0, name |-> Folded(n)]
    ELSE [kind |-> "err", code |-> 112, name |-> <<>>]

\* a ClientHello with consistent lengths in well-formed records, all sent
Consistent(in) ==
    /\ in.htype = TLS_HANDSHAKE_TYPE_CLIENT_HELLO
    /\ in.ovr = NoOvr /\ in.bad = NoBad /\ in.cut = NoCut

(* C17: SNI selection.  For a ClientHello with consistent lengths, what
   get_server_name returns is what the first host_name entry of the first
   server_name extension determines: its name folded to lowercase when that
   is valid, else unrecognized_name; and unrecognized_name when there is no
   extensions block, no server_name extension, or no host_name entry in the
   first one, whatever follows.  When it returns, the cursor has not passed
   the end of that entry (of that extension when it holds no host_name):
   entries of other types before it have been skipped, and nothing after it
   has been read. *)
C17_FirstHostNameOnly ==
    (/\ Consistent(input)
     /\ phase \in {"connect", "alert"}
     /\ timer = "running") =>
       /\ frame.result =
             (IF HasHostName(input) THEN NameResult(FirstHostName(input))
              ELSE [kind |-> "err", code |-> 112, name |-> <<>>])
       /\ \A seen \in {Len(HelloBytes(Examined(input)))} :
             /\ Consumed(sent) <= seen
             /\ (frame.result.kind = "ok" \/ ~HasHostName(input)) =>
                   Consumed(sent) = seen

\* two host_name entries, "a" and "0": "a" is returned, and the cursor is at
\* the end of the first entry
C17_Witness ==
    /\ phase = "connect"
    /\ input.exts = <<Sni(<<Host(<<97>>), Host(<<48>>)>>)>>
    /\ input.frag = <<2>>
    /\ frame.result = Ok(<<97>>)
    /\ Consumed(sent) < Len(HelloBytes(input))

---------------------------------------------------------------------------
\* the client's stream has ended before the byte the next read needs: the
\* byte at the cursor, or the five bytes of the next record header
Missing(r) ==
    /\ r.source.ending = "eof"
    /\ IF r.offset < r.limit THEN Len(sent) <= r.offset
       ELSE Len(sent) < r.limit + HeaderSize

\* get_server_name over the whole of what `in` describes, nothing cut
Uncut(in) ==
    get_server_name([rest |-> ClientBytes([in EXCEPT !.cut = NoCut]),
                     ending |-> "eof"])

(* C18, as the spec states it: when the stream ends before all the bytes
   get_server_name consumes, read or skipped, have been delivered, the
   client gets alert 50.  A skip moves the cursor without a look at the
   stream: when nothing is read after it, the end of the stream goes
   unseen. *)
C18_AsStated ==
    (/\ input.ending = "eof"
     /\ Parsed /\ Returned
     /\ reader.offset > Len(sent))
    => Alerted(DecodeError)

(* C18: premature end of stream.  Whenever get_server_name reads on and the
   stream has ended before the byte at the cursor, or before the five bytes
   of the record header the read needs, the read fails with decode_error
   and get_server_name returns it; a ClientHello that names a host and is
   cut anywhere before the last byte of that name ends in decode_error;
   and the client then gets alert 50 and no backend is contacted.  (Bytes
   that are skipped and followed by no read need not have been
   delivered.) *)
C18_PrematureEof ==
    /\ (phase = "parse" /\ Missing(reader)) =>
          \A g \in BOOLEAN :
             /\ \A b \in {read(reader, g)} : b.st = "err" /\ b.v = 50
             /\ NeedsByte(frame) =>
                   GsnStep(reader, frame, g).f.result = Err(50)
    /\ (/\ phase \in {"connect", "alert"} /\ timer = "running"
        /\ input.ending = "eof" /\ input.cut # NoCut
        /\ input.bad = NoBad) =>
          \A u \in {Uncut(input)} :
             (u.f.result.kind = "ok" /\ input.cut < u.r.offset) =>
                frame.result = Err(50)
    /\ error = 50 => Alerted(50)

\* the stream ended inside the skipped random bytes: the next read found the
\* cursor beyond the stream's end, and the client has the whole alert 50
C18_Witness ==
    /\ input.ending = "eof"
    /\ input.cut # NoCut
    /\ frame.pc = "session_id"
    /\ reader.offset > Len(sent)
    /\ phase = "closed"
    /\ clientOut = AlertBytes(50)

---------------------------------------------------------------------------
\* client streams that end: every layout of the ClientHello in records of
\* one byte, of MaxFrag bytes and in one record, followed or not by
\* application data, the same cut short, and the same with an empty record
\* among its records
EndingStreams ==
    {[sh EXCEPT !.frag = fr, !.tail = t, !.cut = c] :
        sh \in Shapes \cup {OtherOnly}, fr \in {Whole, <<1>>, <<MaxFrag>>},
        t \in Tails, c \in {NoCut, 3, 44, 57}}
    \cup {[sh EXCEPT !.frag = fr, !.bad = [kind |-> "empty", idx |-> i]] :
             sh \in {Base, SniThenOther}, fr \in {Whole, <<1>>},
             i \in 0..MaxBadIdx}

\* a connection whose client sends one of them
TermInit ==
    /\ input \in EndingStreams
    /\ Accepted
    /\ Listening

\* get_server_name can take a step: what ENABLED ParseStep says, every step
\* of the parser moving the reader or the frame
CanStep ==
    /\ phase = "parse"
    /\ \E g \in BOOLEAN : GsnStep(reader, frame, g).st = "ok"

\* the runtime polls a ready task: get_server_name is not left for ever
\* with a step to take. This is WF_vars(ParseStep), written out with the
\* enabling condition as the state predicate CanStep
ParserIsPolled == []<>(~CanStep) \/ []<><<ParseStep>>_vars

FairSpec == TermInit /\ [][Next]_vars /\ ParserIsPolled

\* one round of the loop over the extensions, or over the server names,
\* leaves less of the loop's budget: the charge at the head of the loop takes
\* 4 (3) from it, and the skip at its end adds nothing to it
LoopsDescend ==
    /\ (frame.pc = "extension" /\ frame'.pc = "extension_length") =>
          /\ frame.hello_length > 0
          /\ frame'.hello_length = frame.hello_length - 4
    /\ (frame.pc = "extension_length" /\ frame'.pc = "extension") =>
          /\ frame'.hello_length <= frame.hello_length
          /\ frame'.hello_length >= 0
    /\ (frame.pc = "server_name" /\ frame'.pc = "name_length") =>
          /\ frame.length > 0
          /\ frame'.length = frame.length - 3
    /\ (frame.pc = "name_length" /\ frame'.pc = "server_name") =>
          /\ frame'.length <= frame.length
          /\ frame'.length >= 0
    /\ (frame.pc = "name_byte" /\ frame'.pc = "name_byte") =>
          \/ frame'.i = frame.i + 1 /\ frame'.i <= frame.name_length
          \/ frame'.result.kind # "none"

\* one round of the loop over the record headers in read brings the cursor
\* nearer to the end of the record: offset - limit goes down by the length
\* the header states, which is 1 at least
HeadersDescend ==
    (/\ AtHeader(sent)
     /\ HeaderError(sent[reader.limit + 1],
                    RecordLength(sent, reader.limit)) = 0) =>
       \A into \in {EnterRecord(reader, RecordLength(sent, reader.limit))} :
          /\ into.offset - into.limit < reader.offset - reader.limit
          /\ into.offset - into.limit >= 0 - MaxRecordLength

(* C19: termination of the parser.  Over a client stream that ends,
   get_server_name returns a name or an error, unless the 10 s run out
   first; each round of its two loops leaves less of the loop's budget,
   which is never negative, and each round of the loop over the record
   headers in read brings offset - limit down by the record's length, also
   when a skip has put offset several records past limit; every read from a
   reachable state of the reader ends. *)
C19_ParserTerminates ==
    /\ [](input.ending = "eof" => <>(Parsed \/ timer = "parse"))
    /\ [][ParseStep => LoopsDescend]_vars
    /\ [](/\ HeadersDescend
          /\ phase = "parse" =>
                \A g \in BOOLEAN : read(reader, g).st \in {"ok", "err", "pend"})

\* the skip of the 34 bytes of version and random, one byte a record, has
\* put the cursor more than two records past limit
C19_Witness ==
    /\ phase = "parse"
    /\ input.ending = "eof"
    /\ input.frag = <<1>>
    /\ frame.pc = "session_id"
    /\ reader.offset > reader.limit + 2 * (HeaderSize + 1)

===========================================================================
